---- MODULE Spec2Model ----
(***************************************************************************)
(* Sandbox execution orchestration of abraxas: the execute routes, the      *)
(* sprite webhook handler, the stale-session cleanup and the session/task/  *)
(* comment tables they share.                                               *)
(***************************************************************************)
EXTENDS Integers, Sequences, FiniteSets, TLC

\* ------------------------------------------------------------------ bounds
MaxSessions == 2        \* rows the opencode_sessions table may hold
MaxSprites == 2         \* sprites (and webhook secrets) ever generated
MaxCount == 2           \* largest usage counter a payload carries
MaxComments == 3        \* rows the comments table may hold

Tasks == {"t1"}           \* rows of the tasks table
TaskIds == {"t1", "t2"}   \* task ids a request may name

NoSprite == 0           \* spriteName: null
NoSecret == 0           \* webhookSecret: null
NoStats ==              \* payload.stats / payload.progress counters: undefined
  [messageCount |-> -1, inputTokens |-> -1, outputTokens |-> -1]
NoError == "null"       \* errorMessage: null

Terminal == {"completed", "error"}

VARIABLES
  tasks,        \* tasks table: task id -> [status, executionState]
  sessions,     \* opencode_sessions table, in insertion (createdAt) order
  comments,     \* comments table: task id -> contents in insertion order
  sprites,      \* sprites that exist at the provider
  nextSprite,   \* number of sprite names / webhook secrets generated so far
  inbox,        \* the webhook request answered and not yet responded to, or NoRequest
  last,         \* the answer to that request, or NoResponse
  exec,         \* execute requests in progress: process -> position and locals
  reaper,       \* the cleanup job's position and locals
  stream,       \* events the OpenCode event stream has delivered to monitorSession
  monitor,      \* monitorSession's locals, its progress events and its result
  activeWatchers, \* session-watcher registry: session id -> the watcher registered
  watchers,     \* the background watchers started so far, running or finished
  script        \* one run of the generated callback script in its sprite

\* The variables of the local-mode monitor, the watcher registry and the script.
agentVars == <<stream, monitor, activeWatchers, watchers, script>>

vars == <<tasks, sessions, comments, sprites, nextSprite,
          inbox, last, exec, reaper, agentVars>>

\* ------------------------------------------------------- tables (the DB)
\* The three tables an Effect program reads and writes, as one value.
DB == [sessions |-> sessions, tasks |-> tasks, comments |-> comments]

Merge(row, data) ==
  [f \in DOMAIN row |-> IF f \in DOMAIN data THEN data[f] ELSE row[f]]

updateSession(db, id, data) ==
  [db EXCEPT !.sessions[id] = Merge(@, data)]

\* errorSession without the message.
errorSessionStatusOnly(db, id, errorMessage) ==
  updateSession(db, id, [status |-> "error"])

completeSession(db, id) ==
  updateSession(db, id, [status |-> "completed"])

errorSession(db, id, errorMessage) ==
  updateSession(db, id, [status |-> "error", errorMessage |-> errorMessage])

updateSessionStats(db, id, messageCount, inputTokens, outputTokens) ==
  updateSession(db, id, [messageCount |-> messageCount,
                         inputTokens |-> inputTokens,
                         outputTokens |-> outputTokens])

createSession(db, data) ==
  [db EXCEPT !.sessions = Append(@,
     Merge([taskId |-> "none", status |-> "pending", executionMode |-> "local",
            spriteName |-> NoSprite, webhookSecret |-> NoSecret,
            messageCount |-> 0, inputTokens |-> 0, outputTokens |-> 0,
            errorMessage |-> NoError, timedOut |-> FALSE], data))]

\* The id of the most recent session of a task; 0 when it has none.
getLatestSessionByTaskId(db, taskId) ==
  LET ids == {i \in DOMAIN db.sessions : db.sessions[i].taskId = taskId}
  IN IF ids = {} THEN 0 ELSE CHOOSE i \in ids : \A j \in ids : j <= i

updateTask(db, id, data) ==
  [db EXCEPT !.tasks[id] = Merge(@, data)]

createAgentComment(db, taskId, content) ==
  [db EXCEPT !.comments[taskId] = Append(@, content)]

Comment(kind, text) == [kind |-> kind, text |-> text]

Commit(db) ==
  /\ sessions' = db.sessions
  /\ tasks' = db.tasks
  /\ comments' = db.comments

\* ------------------------------------------------------ webhook requests
Types == {"started", "progress", "completed", "error", "question"}

Texts == {"", "txt"}    \* summary / error / question; "" is an absent field

\* The usage reports a payload may carry: every counter takes every value up
\* to MaxCount, and the three counters of a report differ from each other.
Stats ==
  { [messageCount |-> n, inputTokens |-> (n + 1) % (MaxCount + 1),
     outputTokens |-> (n + 2) % (MaxCount + 1)] : n \in 0..MaxCount }

\* The secrets generateWebhookSecret hands out, one per spawn.
Keys == 1..MaxSprites

\* The JSON bodies a sender builds. json = FALSE is a body JSON.parse rejects.
Payloads ==
  { [json |-> TRUE, type |-> ty, taskId |-> t, text |-> x,
     stats |-> st, progress |-> pr] :
      ty \in Types, t \in TaskIds, x \in Texts,
      st \in Stats \cup {NoStats}, pr \in Stats \cup {NoStats} }

WellFormed(p) ==
  /\ (p.stats # NoStats => p.type = "completed")
  /\ (p.progress # NoStats => p.type = "progress")
  /\ (p.text # "" => p.type \in {"completed", "error", "question"})

\* generateSignature: "sha256=" followed by the HMAC-SHA256 of the raw body
\* under the secret; the MAC of a body is determined by the pair and differs
\* for different bodies or secrets.
generateSignature(payload, secret) ==
  [alg |-> "sha256", key |-> secret, msg |-> payload]

\* What happens to a body between signing and delivery: nothing, one byte of
\* its text flipped, or a byte flipped so that it is no longer JSON.
Tamperings == {"intact", "flipped", "garbled"}

Tamper(p, how) ==
  CASE how = "intact" -> p
    [] how = "flipped" -> [p EXCEPT !.text = IF @ = "" THEN "txt" ELSE ""]
    [] how = "garbled" -> [p EXCEPT !.json = FALSE]

\* A request: the task id of the path, the X-Webhook-Signature header (the
\* empty set when the header is missing) and the raw body.
Request(path, signature, body) ==
  [path |-> path, signature |-> signature, body |-> body]

\* What the script in a sprite sends: any well-formed payload about its task,
\* signed with the secret it was generated with, to its task's URL.
Callbacks ==
  { Request(p.taskId, {generateSignature(p, k)}, p) :
      p \in {q \in Payloads : WellFormed(q) /\ q.taskId \in Tasks}, k \in Keys }

\* What anyone else may send: a bare payload with any task id to a task's
\* URL, without the header, or signed with some secret and altered or not
\* after signing.
Bare == {p \in Payloads : /\ p.stats = NoStats /\ p.progress = NoStats
                          /\ p.text = "" /\ p.type = "completed"}

Forgeries(p) ==
  { Request(t, {}, p) : t \in Tasks } \cup
  { Request(t, {generateSignature(p, k)}, Tamper(p, how)) :
      t \in Tasks, how \in Tamperings, k \in Keys }

Requests == Callbacks \cup UNION {Forgeries(p) : p \in Bare}

\* A comparison that looks at the key of the signature only.
verifySignatureKeyOnly(payload, signature, secret) ==
  \E given \in signature : given.key = secret

verifySignature(payload, signature, secret) ==
  LET expectedSignature == generateSignature(payload, secret)
  IN signature = {expectedSignature}

\* ------------------------------------------------------ webhook handlers
handleStarted(db, taskId) ==
  createAgentComment(db, taskId, Comment("started", ""))

\* handleCompletion without the write of the final usage.
handleCompletionNoStats(db, taskId, sessionId, payload) ==
  LET d2 == completeSession(db, sessionId)
      d3 == updateTask(d2, taskId,
                       [status |-> "trial", executionState |-> "awaiting_review"])
      commentText == IF payload.text # "" THEN payload.text ELSE "Task finished."
  IN createAgentComment(d3, taskId, Comment("completed", commentText))

handleCompletion(db, taskId, sessionId, payload) ==
  LET d1 == IF payload.stats # NoStats
            THEN updateSessionStats(db, sessionId, payload.stats.messageCount,
                                    payload.stats.inputTokens,
                                    payload.stats.outputTokens)
            ELSE db
      d2 == completeSession(d1, sessionId)
      d3 == updateTask(d2, taskId,
                       [status |-> "trial", executionState |-> "awaiting_review"])
      commentText == IF payload.text # "" THEN payload.text ELSE "Task finished."
  IN createAgentComment(d3, taskId, Comment("completed", commentText))

handleError(db, taskId, sessionId, payload) ==
  LET message == IF payload.text # "" THEN payload.text ELSE "Unknown error"
      d1 == errorSession(db, sessionId, message)
      d2 == updateTask(d1, taskId,
                       [status |-> "cursed", executionState |-> "error"])
  IN createAgentComment(d2, taskId, Comment("error", message))

handleQuestion(db, taskId, payload) ==
  createAgentComment(db, taskId, Comment("question", payload.text))

\* handleProgress without the look at the session's status.
handleProgressUnguarded(db, taskId, sessionId, payload) ==
  LET d1 == IF payload.progress # NoStats
            THEN updateSessionStats(db, sessionId,
                                    payload.progress.messageCount,
                                    payload.progress.inputTokens,
                                    payload.progress.outputTokens)
            ELSE db
  IN updateTask(d1, taskId, [executionState |-> "in_progress"])

handleProgress(db, taskId, sessionId, payload) ==
  LET session == db.sessions[sessionId]
  IN IF session.status = "completed" \/ session.status = "error"
     THEN db
     ELSE LET d1 == IF payload.progress # NoStats
                    THEN updateSessionStats(db, sessionId,
                                            payload.progress.messageCount,
                                            payload.progress.inputTokens,
                                            payload.progress.outputTokens)
                    ELSE db
          IN updateTask(d1, taskId, [executionState |-> "in_progress"])

\* The handler's answer as the model records it: the HTTP status and the
\* sprites a destroy call was issued for. Status 0: no answer yet.
Response(status, destroy) == [status |-> status, destroy |-> destroy]

NoResponse == Response(0, {})

Reply(status, db, destroy) == [status |-> status, db |-> db, destroy |-> destroy]

\* The checks with the signature verified before the secret is looked at.
WebhookChecksSignatureFirst(db, req) ==
  LET sid == getLatestSessionByTaskId(db, req.path)
      session == db.sessions[sid]
  IN IF req.signature = {} THEN 401
     ELSE IF ~req.body.json THEN 400
     ELSE IF sid = 0 THEN 500
     ELSE IF ~verifySignature(req.body, req.signature, session.webhookSecret) THEN 401
     ELSE IF session.webhookSecret = NoSecret THEN 400
     ELSE IF req.body.taskId # session.taskId THEN 400
     ELSE 0

\* The checks without the comparison of the task ids.
WebhookChecksNoTaskId(db, req) ==
  LET sid == getLatestSessionByTaskId(db, req.path)
      session == db.sessions[sid]
  IN IF req.signature = {} THEN 401
     ELSE IF ~req.body.json THEN 400
     ELSE IF sid = 0 THEN 500
     ELSE IF session.webhookSecret = NoSecret THEN 400
     ELSE IF ~verifySignature(req.body, req.signature, session.webhookSecret) THEN 401
     ELSE 0

\* The checks of the route handler in the order it makes them: the status of
\* the rejection, or 0 when the request passes them all.
WebhookChecks(db, req) ==
  LET taskId == req.path
      rawBody == req.body
      signature == req.signature
      payload == req.body
      sid == getLatestSessionByTaskId(db, taskId)
      session == db.sessions[sid]
  IN IF signature = {} THEN 401
     ELSE IF ~payload.json THEN 400
     ELSE IF sid = 0 THEN 500
     ELSE IF session.webhookSecret = NoSecret THEN 400
     ELSE IF ~verifySignature(rawBody, signature, session.webhookSecret) THEN 401
     ELSE IF payload.taskId # session.taskId THEN 400
     ELSE 0

\* A destroy rule that does not spare the question.
DestroysSpriteOnQuestion(payload, session) ==
  /\ payload.type # "progress"
  /\ payload.type # "started"
  /\ session.spriteName # NoSprite

\* Whether the handler destroys the session's sprite after the dispatch.
DestroysSprite(payload, session) ==
  /\ payload.type # "question"
  /\ payload.type # "progress"
  /\ payload.type # "started"
  /\ session.spriteName # NoSprite

\* A switch whose default branch falls through to the code after it.
HasCaseOrFallsThrough(payload) == TRUE

\* Whether the switch on payload.type has a case for the payload; its
\* default branch fails the program with a 400 response.
HasCase(payload) == payload.type \in Types

\* A handler that acts on the session the payload names when such a row
\* exists, instead of the one the route looked up.
PayloadSessionId(session_id, payload) ==
  IF "sessionId" \in DOMAIN payload /\ payload.sessionId \in 1..session_id
  THEN payload.sessionId ELSE session_id

\* The session id the route passes to the handlers: session.id of the row it
\* looked up by the task id of the path.
HandledSessionId(session_id, payload) == session_id

\* The route handler up to the destroy call: the response status, the tables
\* afterwards and the sprite to destroy (NoSprite: none).
WebhookResult(db, req) ==
  LET payload == req.body
      sid == getLatestSessionByTaskId(db, req.path)
      session == db.sessions[sid]
      id == HandledSessionId(sid, payload)
      rejected == WebhookChecks(db, req)
  IN IF rejected # 0 THEN Reply(rejected, db, NoSprite)
     ELSE IF ~HasCase(payload) THEN Reply(400, db, NoSprite)
     ELSE LET handled ==
                CASE payload.type = "started" -> handleStarted(db, session.taskId)
                  [] payload.type = "completed" ->
                       handleCompletion(db, session.taskId, id, payload)
                  [] payload.type = "error" ->
                       handleError(db, session.taskId, id, payload)
                  [] payload.type = "question" ->
                       handleQuestion(db, session.taskId, payload)
                  [] payload.type = "progress" ->
                       handleProgress(db, session.taskId, id, payload)
                  [] OTHER -> db
          IN Reply(200, handled,
                   IF DestroysSprite(payload, session)
                   THEN session.spriteName ELSE NoSprite)

\* makeRequest("DELETE", "/sprites/<name>"): what the provider answers and what
\* makeRequest makes of it. ok: the provider is reachable and carries the
\* request out.
DeleteStatus(name, ok) ==
  IF ~ok THEN 500 ELSE IF name \in sprites THEN 204 ELSE 404

makeRequest(status) ==
  IF status < 400 THEN "success"
  ELSE IF status = 404 THEN "SpritesNotFoundError"
  ELSE "SpritesApiError"

\* destroySpriteForTask / destroySprite: the result of the Effect.
destroySpriteForTask(spriteName, ok) == makeRequest(DeleteStatus(spriteName, ok))

\* destroySprite: the DELETE at the provider. The callers here catch a
\* failure, log it and go on.
destroySprite(name, ok) ==
  sprites' = IF destroySpriteForTask(name, ok) = "success"
             THEN sprites \ {name} ELSE sprites

NoRequest == {}

RECURSIVE Sum(_, _)
Sum(f, S) ==
  IF S = {} THEN 0
  ELSE LET x == CHOOSE y \in S : TRUE IN f[x] + Sum(f, S \ {x})

CommentCount == Sum([t \in Tasks |-> Len(comments[t])], Tasks)

\* The request the handler answered last.
Req == CHOOSE r \in inbox : TRUE

\* A script signs its payloads with the secret it was generated with, so a
\* callback (a body about the task of its URL, signed as it is) exists only
\* once its secret does.
Sendable(req) ==
  \A given \in req.signature :
    given.msg = req.body /\ req.path = req.body.taskId => given.key <= nextSprite

\* POST /api/webhooks/sprite/[taskId] for one request, handled as a whole.
\* The request and the answer stay on record until the response is sent.
\* The handler with the destroy call made whether or not its writes succeed.
WebhookPOSTDestroyAnyway(req) ==
  /\ Sendable(req)
  /\ LET res == WebhookResult(DB, req)
     IN \E dbOk \in IF res.status = 200 THEN BOOLEAN ELSE {TRUE} :
          /\ IF dbOk THEN Commit(res.db) ELSE UNCHANGED <<tasks, sessions, comments>>
          /\ IF res.destroy # NoSprite
             THEN \E ok \in BOOLEAN : destroySprite(res.destroy, ok)
             ELSE UNCHANGED sprites
          /\ last' = Response(IF dbOk THEN res.status ELSE 500,
                              {res.destroy} \ {NoSprite})
  /\ inbox' = {req}
  /\ UNCHANGED <<nextSprite, exec, reaper, agentVars>>

\* dbOk: whether the writes of the dispatched handler succeed. A failed write
\* fails the Effect program: the destroy call is skipped and catchAll answers
\* 500. (The failure is taken at the handler's first write.)
WebhookPOST(req) ==
  /\ Sendable(req)
  /\ LET res == WebhookResult(DB, req)
     IN \E dbOk \in IF res.status = 200 THEN BOOLEAN ELSE {TRUE} :
          IF dbOk
          THEN /\ Commit(res.db)
               /\ IF res.destroy # NoSprite
                  THEN \E ok \in BOOLEAN : destroySprite(res.destroy, ok)
                  ELSE UNCHANGED sprites
               /\ last' = Response(res.status, {res.destroy} \ {NoSprite})
          ELSE /\ UNCHANGED <<tasks, sessions, comments, sprites>>
               /\ last' = Response(500, {})
  /\ inbox' = {req}
  /\ UNCHANGED <<nextSprite, exec, reaper, agentVars>>

\* The handler is free and one of the senders' requests arrives.
Webhook(senders) ==
  /\ inbox = NoRequest
  /\ CommentCount < MaxComments
  /\ \E req \in senders : WebhookPOST(req)

\* The response leaves; the handler is ready for the next request.
Respond ==
  /\ inbox # NoRequest
  /\ inbox' = NoRequest
  /\ last' = NoResponse
  /\ UNCHANGED <<tasks, sessions, comments, sprites, nextSprite, exec, reaper, agentVars>>

\* ------------------------------------------------------- execute routes

\* createSprite succeeded: the provider holds a sprite under a fresh name.
\* generateSpriteName and generateWebhookSecret give the n-th spawn name n
\* and secret n.
SpawnCreate ==
  /\ nextSprite' = nextSprite + 1
  /\ sprites' = sprites \cup {nextSprite + 1}

\* The session row of a sprite run (execute route, sprite mode).
SpriteSession(taskId, name) ==
  [taskId |-> taskId, status |-> "in_progress", executionMode |-> "sprite",
   spriteName |-> name, webhookSecret |-> name]

\* A request to one of the execute routes, with what it finds configured:
\* env is "ok", "no_token" (SPRITES_TOKEN unset), "no_webhook_url"
\* (WEBHOOK_BASE_URL unset) or "no_repository" (the project has no
\* repositoryUrl).
ExecRequest(taskId, mode, env) ==
  [path |-> "execute", taskId |-> taskId, mode |-> mode, env |-> env]

Misconfigured == {"no_token", "no_webhook_url", "no_repository"}

\* spawnSpriteForTask that creates the sprite before it reads SpritesConfig
\* and the project's repositoryUrl.
spawnSpriteForTaskCreateFirst(outcome) ==
  IF outcome = "create_failed"
  THEN [error |-> "SpriteExecutionError", created |-> FALSE]
  ELSE IF outcome \in {"no_token", "no_webhook_url"}
  THEN [error |-> "ConfigError", created |-> TRUE]
  ELSE IF outcome \in {"no_repository", "launch_failed"}
  THEN [error |-> "SpriteExecutionError", created |-> TRUE]
  ELSE [error |-> "", created |-> TRUE]

\* spawnSpriteForTask: its error ("" when it returns the sprite) and whether
\* createSprite succeeded, from what is configured and what the provider
\* does. A failed execCommand leaves Effect.gen without entering the catch
\* block, so the sprite it created stays.
spawnSpriteForTask(outcome) ==
  IF outcome \in {"no_token", "no_webhook_url"}
  THEN [error |-> "ConfigError", created |-> FALSE]
  ELSE IF outcome \in {"no_repository", "create_failed"}
  THEN [error |-> "SpriteExecutionError", created |-> FALSE]
  ELSE IF outcome = "launch_failed"
  THEN [error |-> "SpriteExecutionError", created |-> TRUE]
  ELSE [error |-> "", created |-> TRUE]

\* POST .../execute in sprite mode, handled as a whole. outcome is what is
\* configured and what the provider does: "ok", a member of Misconfigured,
\* "create_failed" (createSprite fails) or "launch_failed" (an execCommand of
\* the script upload/launch fails). The request and the answer stay on
\* record until the response is sent.
ExecuteSpritePOST(taskId, outcome) ==
  LET task == tasks[taskId]
      spawn == spawnSpriteForTask(outcome)
      d1 == updateTask(DB, taskId, [executionState |-> "in_progress"])
      d2 == createSession(d1, SpriteSession(taskId, nextSprite + 1))
      d3 == createAgentComment(d2, taskId, Comment("ritual_started", ""))
  IN /\ Len(sessions) < MaxSessions
     /\ nextSprite < MaxSprites
     /\ inbox = NoRequest
     /\ IF outcome = "no_token"
        THEN /\ UNCHANGED <<tasks, sessions, comments, sprites, nextSprite>>
             /\ last' = Response(503, {})
        ELSE IF outcome = "no_repository"
        THEN /\ UNCHANGED <<tasks, sessions, comments, sprites, nextSprite>>
             /\ last' = Response(400, {})
        ELSE IF task.executionState = "in_progress"
        THEN /\ UNCHANGED <<tasks, sessions, comments, sprites, nextSprite>>
             /\ last' = Response(409, {})
        ELSE /\ IF spawn.created THEN SpawnCreate ELSE UNCHANGED <<sprites, nextSprite>>
             /\ IF spawn.error = ""
                THEN Commit(d3) /\ last' = Response(201, {})
                ELSE Commit(d1) /\ last' = Response(500, {})
     /\ inbox' = {ExecRequest(taskId, "sprite",
                              IF outcome \in Misconfigured THEN outcome ELSE "ok")}
     /\ UNCHANGED <<exec, reaper, agentVars>>

\* POST .../execute in local mode, handled as a whole. outcome: "ok",
\* "server_down" (requireOpencodeServer throws) or "execute_failed"
\* (executeTask throws).
ExecuteLocalPOST(taskId, outcome) ==
  LET task == tasks[taskId]
      d1 == createSession(DB, [taskId |-> taskId, status |-> "pending"])
      id == Len(d1.sessions)
      d2 == updateTask(d1, taskId, [executionState |-> "in_progress"])
      d3 == updateSession(d2, id, [status |-> "in_progress"])
      d4 == createAgentComment(d3, taskId, Comment("execution_started", ""))
  IN /\ Len(sessions) < MaxSessions
     /\ inbox = NoRequest
     /\ IF outcome = "server_down"
        THEN /\ UNCHANGED <<tasks, sessions, comments>>
             /\ last' = Response(500, {})
        ELSE IF task.executionState = "in_progress"
        THEN /\ UNCHANGED <<tasks, sessions, comments>>
             /\ last' = Response(409, {})
        ELSE IF outcome = "execute_failed"
        THEN /\ Commit(d1)
             /\ last' = Response(500, {})
        ELSE /\ Commit(d4)
             /\ last' = Response(201, {})
     /\ inbox' = {ExecRequest(taskId, "local", "ok")}
     /\ UNCHANGED <<sprites, nextSprite, exec, reaper, agentVars>>

\* ------------------------------------------------------------- cleanup
\* The stale query without the condition on the execution mode.
StaleSessionsAnyMode(db) ==
  { i \in DOMAIN db.sessions :
      /\ db.sessions[i].status = "in_progress"
      /\ db.sessions[i].timedOut }

\* The stale sessions cleanupStaleSessions queries for.
StaleSessions(db) ==
  { i \in DOMAIN db.sessions :
      /\ db.sessions[i].executionMode = "sprite"
      /\ db.sessions[i].status = "in_progress"
      /\ db.sessions[i].timedOut }

\* cleanupStaleSession after its destroy call: the three table writes.
cleanupStaleSession(db, sessionId, taskId) ==
  LET d1 == errorSession(db, sessionId, "Execution timed out after 1 hour")
      d2 == updateTask(d1, taskId, [status |-> "cursed", executionState |-> "error"])
  IN createAgentComment(d2, taskId, Comment("timeout", ""))

RECURSIVE CleanupAll(_, _)
CleanupAll(db, ids) ==
  IF ids = {} THEN db
  ELSE LET i == CHOOSE x \in ids : \A y \in ids : x <= y
       IN CleanupAll(cleanupStaleSession(db, i, db.sessions[i].taskId), ids \ {i})

\* The cron job's request to GET /api/cron/cleanup.
CronRequest == [path |-> "/api/cron/cleanup"]

\* GET /api/cron/cleanup: one run of the cleanup job, as a whole. gone: the
\* stale sessions whose destroy call succeeds. The request and the answer
\* (with the sprites a destroy call was issued for) stay on record until the
\* response is sent.
Cleanup ==
  /\ inbox = NoRequest
  /\ LET staleSessions == StaleSessions(DB)
         named == {i \in staleSessions : sessions[i].spriteName # NoSprite}
     IN /\ Commit(CleanupAll(DB, staleSessions))
        /\ \E gone \in SUBSET named :
             sprites' = sprites \ {sessions[i].spriteName : i \in gone}
        /\ last' = Response(200, {sessions[i].spriteName : i \in named})
  /\ inbox' = {CronRequest}
  /\ UNCHANGED <<nextSprite, exec, reaper, agentVars>>

\* Time passes: the clock reaches createdAt + timeoutMs of the oldest session
\* still in_progress (a status no session returns to) that it had not yet
\* reached it for (timedOut: createdAt < now - timeoutMs).
TimePasses ==
  /\ inbox = NoRequest
  /\ LET waiting == {i \in DOMAIN sessions : /\ sessions[i].status = "in_progress"
                                             /\ ~sessions[i].timedOut}
     IN /\ waiting # {}
        /\ LET i == CHOOSE x \in waiting : \A y \in waiting : x <= y
           IN sessions' = [sessions EXCEPT ![i].timedOut = TRUE]
  /\ UNCHANGED <<tasks, comments, sprites, nextSprite, inbox, last, exec, reaper, agentVars>>

\* ------------------------------------------- the routes, await by await
\* Between two awaits of a handler the other handlers run. The actions below
\* take the execute routes and the cleanup job one await at a time.
Procs == {"p1", "p2"}   \* execute requests in flight at once

Idle == [pc |-> "idle"]

Busy(p) == exec[p].pc # "idle"

\* Rows and sprites the requests in flight may still create.
Reserved(mode) ==
  Cardinality({p \in Procs : Busy(p) /\ (mode = "any" \/ exec[p].mode = mode)})

\* getTaskById and the 409 check of either execute route.
ExecRead(p, taskId, mode) ==
  /\ ~Busy(p)
  /\ Len(sessions) + Reserved("any") < MaxSessions
  /\ mode = "sprite" => nextSprite + Reserved("sprite") < MaxSprites
  /\ exec' = IF tasks[taskId].executionState = "in_progress"
             THEN exec
             ELSE [exec EXCEPT ![p] = [pc |-> "read", taskId |-> taskId,
                                       mode |-> mode, name |-> NoSprite, id |-> 0]]
  /\ UNCHANGED <<tasks, sessions, comments, sprites, nextSprite, inbox, last, reaper, agentVars>>

\* Sprite mode: updateTask(executionState: "in_progress").
ExecMark(p) ==
  /\ exec[p].pc = "read"
  /\ exec[p].mode = "sprite"
  /\ Commit(updateTask(DB, exec[p].taskId, [executionState |-> "in_progress"]))
  /\ exec' = [exec EXCEPT ![p].pc = "marked"]
  /\ UNCHANGED <<sprites, nextSprite, inbox, last, reaper, agentVars>>

\* Sprite mode: spawnSpriteForTask; a failure ends the request with 500.
ExecSpawn(p, outcome) ==
  /\ exec[p].pc = "marked"
  /\ LET spawn == spawnSpriteForTask(outcome)
     IN /\ IF spawn.created THEN SpawnCreate ELSE UNCHANGED <<sprites, nextSprite>>
        /\ exec' = IF spawn.error = ""
                   THEN [exec EXCEPT ![p].pc = "spawned", ![p].name = nextSprite + 1]
                   ELSE [exec EXCEPT ![p] = Idle]
  /\ UNCHANGED <<tasks, sessions, comments, inbox, last, reaper, agentVars>>

\* spawnSpriteForTask call by call. The remote calls it makes, in the order
\* of its yields: createSprite, the exec that writes the script from stdin,
\* the chmod exec and the exec that starts the script in a detached screen.
SpawnCalls == <<"createSprite", "write", "chmod", "launch">>

\* A spawn that goes on to its next call when one has failed.
AfterCallIgnoringFailure(k, ok) ==
  IF k = Len(SpawnCalls) THEN "spawned" ELSE "calling"

\* Where spawnSpriteForTask is after its k-th call: a failed Effect ends the
\* generator, the last call's success returns the result.
AfterCall(k, ok) ==
  IF ~ok THEN "failed"
  ELSE IF k = Len(SpawnCalls) THEN "spawned"
  ELSE "calling"

\* The calls a request's spawn has made so far, with their outcomes.
CallsOf(p) == IF exec[p].pc \in {"calling", "failed", "spawned"} /\ "calls" \in DOMAIN exec[p]
              THEN exec[p].calls ELSE <<>>

\* The next remote call of a request's spawn. The launch returns as soon as
\* screen has detached: the script (of the first sprite) starts its run.
SpawnCall(p, ok) ==
  LET k == Len(CallsOf(p)) + 1
      calls == Append(CallsOf(p), [call |-> SpawnCalls[k], ok |-> ok])
      name == IF k = 1 THEN (IF ok THEN nextSprite + 1 ELSE NoSprite) ELSE exec[p].name
  IN /\ exec[p].pc \in {"marked", "calling"}
     /\ IF k = 1 /\ ok THEN SpawnCreate ELSE UNCHANGED <<sprites, nextSprite>>
     /\ exec' = [exec EXCEPT ![p] =
                   [pc |-> AfterCall(k, ok), taskId |-> exec[p].taskId,
                    mode |-> exec[p].mode, name |-> name, id |-> 0, calls |-> calls]]
     /\ UNCHANGED <<tasks, sessions, comments, inbox, last, reaper, agentVars>>

\* The route's catchAll after a failed spawn: 500.
SpawnFailed(p) ==
  /\ exec[p].pc = "failed"
  /\ exec' = [exec EXCEPT ![p] = Idle]
  /\ UNCHANGED <<tasks, sessions, comments, sprites, nextSprite, inbox, last,
                 reaper, agentVars>>

\* Sprite mode: createSession and the "ritual started" comment; 201.
ExecRecord(p) ==
  /\ exec[p].pc = "spawned"
  /\ LET taskId == exec[p].taskId
         d1 == createSession(DB, SpriteSession(taskId, exec[p].name))
     IN Commit(createAgentComment(d1, taskId, Comment("ritual_started", "")))
  /\ exec' = [exec EXCEPT ![p] = Idle]
  /\ UNCHANGED <<sprites, nextSprite, inbox, last, reaper, agentVars>>

\* Local mode: createSession(status: "pending").
ExecPending(p) ==
  /\ exec[p].pc = "read"
  /\ exec[p].mode = "local"
  /\ Commit(createSession(DB, [taskId |-> exec[p].taskId, status |-> "pending"]))
  /\ exec' = [exec EXCEPT ![p].pc = "pending", ![p].id = Len(sessions) + 1]
  /\ UNCHANGED <<sprites, nextSprite, inbox, last, reaper, agentVars>>

\* Local mode: executeTask, then the task and session updates and the comment.
ExecRun(p, ok) ==
  /\ exec[p].pc = "pending"
  /\ IF ok
     THEN LET taskId == exec[p].taskId
              d1 == updateTask(DB, taskId, [executionState |-> "in_progress"])
              d2 == updateSession(d1, exec[p].id, [status |-> "in_progress"])
          IN Commit(createAgentComment(d2, taskId, Comment("execution_started", "")))
     ELSE UNCHANGED <<tasks, sessions, comments>>
  /\ exec' = [exec EXCEPT ![p] = Idle]
  /\ UNCHANGED <<sprites, nextSprite, inbox, last, reaper, agentVars>>

\* cleanupStaleSessions: the query for stale sessions.
ReaperQuery ==
  /\ reaper.pc = "idle"
  /\ LET staleSessions == StaleSessions(DB)
     IN reaper' = IF staleSessions = {} THEN Idle
                  ELSE [pc |-> "destroy", staleSessions |-> staleSessions]
  /\ UNCHANGED <<tasks, sessions, comments, sprites, nextSprite, inbox, last, exec, agentVars>>

\* The session of the list the loop is at.
ReaperAt == CHOOSE i \in reaper.staleSessions : \A j \in reaper.staleSessions : i <= j

\* cleanupStaleSession: the destroySprite call, failure logged and ignored.
ReaperDestroy(ok) ==
  /\ reaper.pc = "destroy"
  /\ IF sessions[ReaperAt].spriteName # NoSprite
     THEN destroySprite(sessions[ReaperAt].spriteName, ok)
     ELSE UNCHANGED sprites
  /\ reaper' = [reaper EXCEPT !.pc = "finalize"]
  /\ UNCHANGED <<tasks, sessions, comments, nextSprite, inbox, last, exec, agentVars>>

\* cleanupStaleSession: errorSession, updateTask and the timeout comment.
ReaperFinalize ==
  /\ reaper.pc = "finalize"
  /\ Commit(cleanupStaleSession(DB, ReaperAt, sessions[ReaperAt].taskId))
  /\ reaper' = LET rest == reaper.staleSessions \ {ReaperAt}
               IN IF rest = {} THEN Idle
                  ELSE [pc |-> "destroy", staleSessions |-> rest]
  /\ UNCHANGED <<sprites, nextSprite, inbox, last, exec, agentVars>>

\* ---------------------------------- the webhook handler, await by await
\* The awaits of the handler a payload is dispatched to, in order, and the
\* destroy call that follows a terminal callback of a session with a sprite.
HandlerOps(payload, session) ==
  LET destroy == IF DestroysSprite(payload, session) THEN <<"destroySprite">> ELSE <<>>
  IN CASE payload.type = "started" -> <<"createAgentComment">>
       [] payload.type = "question" -> <<"createAgentComment">>
       [] payload.type = "completed" ->
            (IF payload.stats # NoStats THEN <<"updateSessionStats">> ELSE <<>>)
              \o <<"completeSession", "updateTask", "createAgentComment">> \o destroy
       [] payload.type = "error" ->
            <<"errorSession", "updateTask", "createAgentComment">> \o destroy
       [] payload.type = "progress" ->
            <<"getSessionById">>
              \o (IF payload.progress # NoStats THEN <<"updateSessionStats">> ELSE <<>>)
              \o <<"updateTask">>

\* One write of a handler, as the handler of the payload's type makes it.
HandlerWrite(db, op, payload, taskId, sessionId) ==
  LET text == IF payload.text # "" THEN payload.text
              ELSE IF payload.type = "completed" THEN "Task finished."
              ELSE IF payload.type = "error" THEN "Unknown error"
              ELSE ""
      counters == IF payload.type = "completed" THEN payload.stats ELSE payload.progress
  IN CASE op = "updateSessionStats" ->
            updateSessionStats(db, sessionId, counters.messageCount,
                               counters.inputTokens, counters.outputTokens)
       [] op = "completeSession" -> completeSession(db, sessionId)
       [] op = "errorSession" -> errorSession(db, sessionId, text)
       [] op = "updateTask" ->
            updateTask(db, taskId,
              CASE payload.type = "completed" ->
                     [status |-> "trial", executionState |-> "awaiting_review"]
                [] payload.type = "error" ->
                     [status |-> "cursed", executionState |-> "error"]
                [] payload.type = "progress" -> [executionState |-> "in_progress"])
       [] op = "createAgentComment" ->
            createAgentComment(db, taskId, Comment(payload.type, text))
       [] OTHER -> db

\* Webhook handlers in flight.
Hooks == {p \in Procs : exec[p].pc = "hook"}

\* The handler reads the latest session of the path's task and makes its
\* checks; a request that passes them is dispatched.
HookReceive(p, req) ==
  LET sid == getLatestSessionByTaskId(DB, req.path)
  IN /\ ~Busy(p)
     /\ Sendable(req)
     /\ CommentCount + Cardinality(Hooks) < MaxComments
     /\ WebhookChecks(DB, req) = 0
     /\ HasCase(req.body)
     /\ exec' = [exec EXCEPT ![p] =
                   [pc |-> "hook", mode |-> "hook", payload |-> req.body,
                    taskId |-> sessions[sid].taskId, id |-> sid,
                    name |-> sessions[sid].spriteName,
                    ops |-> HandlerOps(req.body, sessions[sid])]]
     /\ UNCHANGED <<tasks, sessions, comments, sprites, nextSprite, inbox, last,
                    reaper, agentVars>>

\* The next await of a handler in flight. ok: whether the call succeeds. A
\* failed table call fails the Effect program (answer 500, no destroy call);
\* a failed destroy is logged. handleProgress returns at once when the
\* session it reads is completed or in error.
HookStep(p, ok) ==
  LET self == exec[p]
      op == Head(self.ops)
      ignored == /\ op = "getSessionById"
                 /\ sessions[self.id].status \in {"completed", "error"}
      rest == IF ignored \/ (~ok /\ op # "destroySprite") THEN <<>> ELSE Tail(self.ops)
  IN /\ self.pc = "hook"
     /\ IF op = "destroySprite"
        THEN destroySprite(self.name, ok) /\ UNCHANGED <<tasks, sessions, comments>>
        ELSE /\ UNCHANGED sprites
             /\ IF ok THEN Commit(HandlerWrite(DB, op, self.payload, self.taskId, self.id))
                ELSE UNCHANGED <<tasks, sessions, comments>>
     /\ exec' = [exec EXCEPT ![p] = IF rest = <<>> THEN Idle
                                    ELSE [self EXCEPT !.ops = rest]]
     /\ UNCHANGED <<nextSprite, inbox, last, reaper, agentVars>>

\* ---------------------------------- the cleanup job with failing writes
\* The answer of runCleanup: the cleaned count, with the stale sessions the
\* run had found.
SweepAnswer(cleaned, found) ==
  [status |-> 200, destroy |-> {}, cleaned |-> cleaned, found |-> found]

\* cleanupStaleSessions: the query for stale sessions; with none found the
\* run returns { cleaned: 0 }.
SweepQuery ==
  /\ reaper.pc = "idle"
  /\ inbox = NoRequest
  /\ LET staleSessions == StaleSessions(DB)
     IN IF staleSessions = {}
        THEN /\ inbox' = {CronRequest}
             /\ last' = SweepAnswer(0, {})
             /\ UNCHANGED reaper
        ELSE /\ reaper' = [pc |-> "destroy", staleSessions |-> staleSessions,
                           found |-> staleSessions, write |-> 1]
             /\ UNCHANGED <<inbox, last>>
  /\ UNCHANGED <<tasks, sessions, comments, sprites, nextSprite, exec, agentVars>>

\* The writes of cleanupStaleSession in order.
SweepWrites == <<"errorSession", "updateTask", "createAgentComment">>

\* A failed write fails cleanupStaleSession and with it the whole generator:
\* the loop ends and runCleanup's catchAll answers { cleaned: 0 }.
SweepAfterFailure(r) ==
  [next |-> Idle, answer |-> SweepAnswer(0, r.found)]

\* cleanupStaleSession: its next write. After the last write of the last
\* session the run returns { cleaned: staleSessions.length }.
SweepWrite(ok) ==
  LET k == reaper.write
      i == ReaperAt
      taskId == sessions[i].taskId
      rest == reaper.staleSessions \ {i}
      after == IF ~ok THEN SweepAfterFailure(reaper)
               ELSE IF k < Len(SweepWrites)
               THEN [next |-> [reaper EXCEPT !.write = k + 1], answer |-> NoResponse]
               ELSE IF rest # {}
               THEN [next |-> [reaper EXCEPT !.pc = "destroy", !.staleSessions = rest,
                                             !.write = 1],
                     answer |-> NoResponse]
               ELSE [next |-> Idle,
                     answer |-> SweepAnswer(Cardinality(reaper.found), reaper.found)]
  IN /\ reaper.pc = "finalize"
     /\ "write" \in DOMAIN reaper
     /\ IF ok
        THEN Commit(CASE k = 1 -> errorSession(DB, i, "Execution timed out after 1 hour")
                      [] k = 2 -> updateTask(DB, taskId,
                                    [status |-> "cursed", executionState |-> "error"])
                      [] k = 3 -> createAgentComment(DB, taskId, Comment("timeout", "")))
        ELSE UNCHANGED <<tasks, sessions, comments>>
     /\ reaper' = after.next
     /\ IF after.answer = NoResponse THEN UNCHANGED <<inbox, last>>
        ELSE inbox' = {CronRequest} /\ last' = after.answer
     /\ UNCHANGED <<sprites, nextSprite, exec, agentVars>>

\* The final usage a completed callback reports and the usage of a progress
\* report.
FinalStats == CHOOSE s \in Stats : s.messageCount = MaxCount
ProgressStats == CHOOSE s \in Stats : s.messageCount = 0

\* The callbacks of a script that reports usage: progress with counters,
\* completed with the final counters, error.
UsageCallbacks ==
  {r \in Callbacks :
     /\ r.body.text = ""
     /\ r.body.type \in {"progress", "completed", "error"}
     /\ r.body.stats = (IF r.body.type = "completed" THEN FinalStats ELSE NoStats)
     /\ r.body.progress = (IF r.body.type = "progress" THEN ProgressStats ELSE NoStats)}

\* The callbacks a sprite's script sends when it has nothing to report
\* besides the event itself.
PlainCallbacks ==
  {r \in Callbacks : /\ r.body.text = "" /\ r.body.stats = NoStats
                     /\ r.body.progress = NoStats}

\* Values of payload.type the switch has no case for: a type the interface
\* does not list, and a body without the field.
UnknownTypes == {"cancelled", "undefined"}

\* Values of payload.sessionId: 0 is what the script sends (the task's id,
\* which is no session's id), the others are ids of session rows.
SessionIdFields == 0..MaxSessions

\* Correctly signed callbacks about the task of their URL, of every type and
\* with every sessionId field.
DispatchCallbacks ==
  { Request(t, {generateSignature(p, k)}, p) :
      k \in Keys,
      t \in Tasks,
      p \in { [json |-> TRUE, type |-> ty, taskId |-> taskId, text |-> "",
               stats |-> NoStats, progress |-> NoStats, sessionId |-> s] :
                 ty \in Types \cup UnknownTypes, taskId \in Tasks,
                 s \in SessionIdFields } }

\* ------------------------------------------------ the live monitor
\* monitorSession reads the server's event stream, which carries the events
\* of every session, and follows one OpenCode session.
MaxEvents == 3     \* events the stream delivers in one run
MaxTokens == 2     \* largest token count one message reports

OwnSession == "oc1"            \* the sessionId monitorSession was called with
NoSession == "undefined"       \* an event without a session id
NoTokens == [input |-> -1, output |-> -1]   \* info.tokens: undefined
NoRole == "undefined"          \* lastMessageRole before the first message

\* The session's messages: the user's prompt and the agent's answers. A role
\* is fixed per message; an assistant message reports its tokens, a user
\* message has none.
MessageIds == {"m1", "m2", "m3"}
RoleOf(id) == IF id = "m1" THEN "user" ELSE "assistant"
Tokens ==
  {[input |-> n, output |-> (n + 1) % (MaxTokens + 1)] : n \in 0..MaxTokens}

\* The text client.session.message returns for a message.
TextOf(id) ==
  IF id = "m1" THEN "fix it" ELSE IF id = "m2" THEN "done" ELSE "which one?"

\* questionIndicators: the text contains "?", "please provide", "what is",
\* "which" or "how".
hasQuestion(text) == text \in {"which one?"}

Event(type, sessionID, status, id, tokens) ==
  [type |-> type, sessionID |-> sessionID, status |-> status, id |-> id,
   tokens |-> tokens]

MessageUpdated(sessionID) ==
  {Event("message.updated", sessionID, "", id, NoTokens) :
     id \in {i \in MessageIds : RoleOf(i) = "user"}}
  \cup {Event("message.updated", sessionID, "", id, t) :
          id \in {i \in MessageIds : RoleOf(i) = "assistant"}, t \in Tokens}

SessionEvents(sessionID) ==
  {Event("session.status", sessionID, st, "", NoTokens) : st \in {"idle", "busy"}}
  \cup {Event(type, sessionID, "", "", NoTokens) :
          type \in {"session.idle", "session.error", "session.deleted"}}

\* What the stream can deliver: every event of the monitored session, and
\* some of another session and some without a session id.
OwnEvents == MessageUpdated(OwnSession) \cup SessionEvents(OwnSession)
OtherEvents ==
  {e \in MessageUpdated("oc2") : e.id = "m3" /\ e.tokens.input = MaxTokens}
  \cup {e \in SessionEvents("oc2") : e.type # "session.idle" /\ e.status # "busy"}
  \cup {e \in SessionEvents(NoSession) : e.type \in {"session.idle", "session.deleted"}}
Events == OwnEvents \cup OtherEvents

NoResult == [success |-> FALSE, error |-> "pending", summary |-> "",
             messageCount |-> -1, inputTokens |-> -1, outputTokens |-> -1]
Failure(error) == [NoResult EXCEPT !.error = error]

\* The sum of the token map: totalInputTokens and totalOutputTokens.
RECURSIVE TotalTokens(_, _, _)
TotalTokens(messageTokens, ids, field) ==
  IF ids = {} THEN 0
  ELSE LET id == CHOOSE i \in ids : TRUE
           t == messageTokens[id]
       IN (IF t = NoTokens THEN 0 ELSE t[field])
          + TotalTokens(messageTokens, ids \ {id}, field)

\* The locals of monitorSession when it has subscribed.
MonitorStart ==
  [hasMessages |-> FALSE, lastMessageRole |-> NoRole, lastMessageText |-> "",
   seenMessageIds |-> {}, messageTokens |-> [id \in MessageIds |-> NoTokens],
   loop |-> "running", returned |-> NoResult, result |-> NoResult,
   progress |-> <<>>]

Success(m) ==
  [success |-> TRUE, error |-> "",
   summary |-> IF m.lastMessageText # "" THEN m.lastMessageText
               ELSE "Task execution completed",
   messageCount |-> Cardinality(m.seenMessageIds),
   inputTokens |-> TotalTokens(m.messageTokens, MessageIds, "input"),
   outputTokens |-> TotalTokens(m.messageTokens, MessageIds, "output")]

\* The loop returns: its value settles the race unless the timer already has.
Return(m, value) ==
  [m EXCEPT !.loop = "returned", !.returned = value,
            !.result = IF m.result = NoResult THEN value ELSE m.result]

\* A token map that adds a repeated update to what the message had.
AddTokens(messageTokens, id, tokens) ==
  [messageTokens EXCEPT ![id] =
     IF @ = NoTokens THEN tokens
     ELSE [input |-> @.input + tokens.input, output |-> @.output + tokens.output]]

\* messageTokens.set(id, tokens)
SetTokens(messageTokens, id, tokens) == [messageTokens EXCEPT ![id] = tokens]

\* case "message.updated"
messageUpdated(m, e) ==
  LET role == RoleOf(e.id)
      tokens == IF role = "assistant" /\ e.tokens # NoTokens
                THEN SetTokens(m.messageTokens, e.id, e.tokens)
                ELSE m.messageTokens
      ids == m.seenMessageIds \cup {e.id}
      text == TextOf(e.id)
      stats == [type |-> "stats", messageCount |-> Cardinality(ids),
                inputTokens |-> TotalTokens(tokens, MessageIds, "input"),
                outputTokens |-> TotalTokens(tokens, MessageIds, "output")]
      said == IF role = "assistant" /\ text # ""
              THEN <<[type |-> IF hasQuestion(text) THEN "question" ELSE "message",
                      text |-> text]>>
              ELSE <<>>
  IN [m EXCEPT !.hasMessages = TRUE, !.lastMessageRole = role,
               !.seenMessageIds = ids, !.messageTokens = tokens,
               !.lastMessageText = text, !.progress = <<stats>> \o said]

\* A completion test that does not look at the last message.
IsCompleteWhenIdle(m) == TRUE

\* The completion test of the idle branches.
IsComplete(m) == m.hasMessages /\ m.lastMessageRole = "assistant"

\* A filter that only skips the events of other sessions.
ForTargetOrUnknown(e) == e.sessionID = NoSession \/ e.sessionID = OwnSession

\* The events the loop does not skip.
ForTarget(e) == e.sessionID # NoSession /\ e.sessionID = OwnSession

\* One iteration of the for-await loop on event e.
monitorEvent(m, e) ==
  LET quiet == [m EXCEPT !.progress = <<>>]
  IN IF ~ForTarget(e) THEN quiet
     ELSE IF e.type = "session.status"
     THEN LET told == [m EXCEPT !.progress = <<[type |-> "status", status |-> e.status]>>]
          IN IF e.status = "idle" /\ IsComplete(m) THEN Return(told, Success(m))
             ELSE told
     ELSE IF e.type = "session.idle"
     THEN IF IsComplete(m) THEN Return(quiet, Success(m)) ELSE quiet
     ELSE IF e.type = "session.error"
     THEN Return([m EXCEPT !.progress = <<[type |-> "error", error |-> "session error"]>>],
                 Failure("session error"))
     ELSE IF e.type = "message.updated" THEN messageUpdated(m, e)
     ELSE Return(quiet, Failure("Session was deleted"))

\* The stream delivers an event and the loop handles it.
MonitorEvent(e) ==
  /\ monitor.loop = "running"
  /\ Len(stream) < MaxEvents
  /\ stream' = Append(stream, e)
  /\ monitor' = monitorEvent(monitor, e)
  /\ UNCHANGED <<tasks, sessions, comments, sprites, nextSprite, inbox, last,
                 exec, reaper, activeWatchers, watchers, script>>

\* The stream ends, or reading it throws: the loop returns a failure.
MonitorStreamEnds(error) ==
  /\ monitor.loop = "running"
  /\ monitor' = Return([monitor EXCEPT !.progress = <<>>], Failure(error))
  /\ UNCHANGED <<tasks, sessions, comments, sprites, nextSprite, inbox, last,
                 exec, reaper, stream, activeWatchers, watchers, script>>

\* A timer that never fires.
MonitorTimeoutNever ==
  /\ FALSE
  /\ UNCHANGED vars

\* The timer of timeoutMs fires: it settles the race unless the loop has;
\* nothing stops the loop.
MonitorTimeout ==
  /\ monitor.result = NoResult
  /\ monitor' = [monitor EXCEPT !.result = Failure("Session monitoring timeout (30 minutes)")]
  /\ UNCHANGED <<tasks, sessions, comments, sprites, nextSprite, inbox, last,
                 exec, reaper, stream, activeWatchers, watchers, script>>

\* ------------------------------------------------ the session watcher
\* startSessionWatcher runs monitorSession for a local session in the
\* background and writes its result to the tables.
MaxWatchers == 2   \* watchers started in one run

NoWatcher == 0     \* activeWatchers.get(sessionId): undefined

\* The events a watcher's stream delivers.
WatcherEvents ==
  {e \in OwnEvents : \/ e.type = "session.status"
                     \/ e.type = "session.error"
                     \/ e.id = "m3" /\ e.tokens.input = MaxTokens}
  \cup {e \in OtherEvents : e.sessionID = NoSession /\ e.type = "session.idle"}

\* The background function's locals: its AbortController's signal, the
\* questions it has posted, its monitor and the events that one has counted.
Watcher(taskId, sessionId) ==
  [taskId |-> taskId, sessionId |-> sessionId, aborted |-> FALSE,
   postedQuestions |-> {}, eventCount |-> 0, mon |-> MonitorStart,
   pc |-> "monitoring"]

handleSessionCompletion(db, taskId, sessionId, result) ==
  IF result.success
  THEN createAgentComment(
         updateTask(completeSession(db, sessionId), taskId,
                    [status |-> "trial", executionState |-> "awaiting_review"]),
         taskId, Comment("execution_completed", result.summary))
  ELSE LET error == IF result.error # "" THEN result.error ELSE "Unknown error"
       IN createAgentComment(
            updateTask(errorSession(db, sessionId, error), taskId,
                       [status |-> "cursed", executionState |-> "error"]),
            taskId, Comment("execution_failed", error))

handleSessionQuestion(db, taskId, question) ==
  createAgentComment(db, taskId, Comment("question", question))

RECURSIVE PostQuestions(_, _, _)
PostQuestions(db, taskId, questions) ==
  IF questions = {} THEN db
  ELSE LET q == CHOOSE x \in questions : TRUE
       IN PostQuestions(handleSessionQuestion(db, taskId, q), taskId, questions \ {q})

\* The Map's operations; an entry is a pair <<session id, watcher>>.
activeWatchersHas(sessionId) == \E entry \in activeWatchers : entry[1] = sessionId

activeWatchersGet(sessionId) ==
  IF activeWatchersHas(sessionId)
  THEN (CHOOSE entry \in activeWatchers : entry[1] = sessionId)[2]
  ELSE NoWatcher

activeWatchersDelete(sessionId) == {entry \in activeWatchers : entry[1] # sessionId}

activeWatchersSet(sessionId, controller) ==
  activeWatchersDelete(sessionId) \cup {<<sessionId, controller>>}

isSessionWatched(sessionId) == activeWatchersHas(sessionId)

startSessionWatcher(taskId, sessionId) ==
  /\ sessionId \in DOMAIN sessions
  /\ sessions[sessionId].taskId = taskId
  /\ sessions[sessionId].executionMode = "local"
  /\ IF activeWatchersHas(sessionId)
     THEN UNCHANGED <<activeWatchers, watchers>>
     ELSE /\ Len(watchers) < MaxWatchers
          /\ watchers' = Append(watchers, Watcher(taskId, sessionId))
          /\ activeWatchers' = activeWatchersSet(sessionId, Len(watchers) + 1)
  /\ UNCHANGED <<tasks, sessions, comments, sprites, nextSprite, inbox, last,
                 exec, reaper, stream, monitor, script>>

stopSessionWatcher(sessionId) ==
  LET controller == activeWatchersGet(sessionId)
  IN /\ IF controller # NoWatcher
        THEN /\ watchers' = [watchers EXCEPT ![controller].aborted = TRUE]
             /\ activeWatchers' = activeWatchersDelete(sessionId)
        ELSE UNCHANGED <<activeWatchers, watchers>>
     /\ UNCHANGED <<tasks, sessions, comments, sprites, nextSprite, inbox, last,
                    exec, reaper, stream, monitor, script>>

\* One iteration of a watcher's monitor. The monitor calls the watcher's
\* onProgress for each progress event in turn; the callback posts a new
\* question and then throws when the signal is aborted, which the monitor's
\* try / catch turns into its return value.
WatcherEvent(w, e) ==
  LET self == watchers[w]
      m == monitorEvent(self.mon, e)
      calls == IF self.aborted /\ m.progress # <<>> THEN <<Head(m.progress)>>
               ELSE m.progress
      questions == {calls[k].text : k \in {j \in DOMAIN calls : calls[j].type = "question"}}
                     \ self.postedQuestions
      thrown == self.aborted /\ m.progress # <<>>
  IN /\ self.mon.loop = "running"
     /\ self.eventCount < MaxEvents
     /\ CommentCount < MaxComments
     /\ watchers' = [watchers EXCEPT
          ![w].eventCount = @ + 1,
          ![w].postedQuestions = @ \cup questions,
          ![w].mon = IF thrown THEN Return(self.mon, Failure("Watcher canceled")) ELSE m]
     /\ Commit(PostQuestions(DB, self.taskId, questions))
     /\ UNCHANGED <<sprites, nextSprite, inbox, last, exec, reaper, stream,
                    monitor, activeWatchers, script>>

\* The timer of a watcher's monitor fires.
WatcherTimeout(w) ==
  /\ watchers[w].mon.result = NoResult
  /\ watchers' = [watchers EXCEPT ![w].mon.result =
                    Failure("Session monitoring timeout (30 minutes)")]
  /\ UNCHANGED <<tasks, sessions, comments, sprites, nextSprite, inbox, last,
                 exec, reaper, stream, monitor, activeWatchers, script>>

\* monitorSession has resolved: the watcher records the result and, in its
\* finally block, deletes the registry's entry of its session.
WatcherCompletes(w) ==
  LET self == watchers[w]
  IN /\ self.pc = "monitoring"
     /\ self.mon.result # NoResult
     /\ CommentCount < MaxComments
     /\ Commit(handleSessionCompletion(DB, self.taskId, self.sessionId, self.mon.result))
     /\ watchers' = [watchers EXCEPT ![w].pc = "stopped"]
     /\ activeWatchers' = activeWatchersDelete(self.sessionId)
     /\ UNCHANGED <<sprites, nextSprite, inbox, last, exec, reaper, stream,
                    monitor, script>>

\* The stream of a watcher's monitor ends, or reading it throws.
WatcherStreamEnds(w) ==
  /\ watchers[w].mon.loop = "running"
  /\ watchers' = [watchers EXCEPT ![w].mon =
                    Return(@, Failure("Event stream ended unexpectedly"))]
  /\ UNCHANGED <<tasks, sessions, comments, sprites, nextSprite, inbox, last,
                 exec, reaper, stream, monitor, activeWatchers, script>>

\* ------------------------------------------------ the generated script
\* generateCallbackScript: the bash script a sprite runs under
\* set -euo pipefail, one command at a time.
MaxLog == 3        \* events the agent writes to its JSON event log
MaxProgress == 2   \* progress reports of the background monitor

SCRIPT_TASK == "t1"     \* TASK_ID the script was generated with
SCRIPT_SECRET == 1      \* WEBHOOK_SECRET the script was generated with

ExitCodes == {0, 1}
NoExitCode == -1

ScriptStart ==
  [pc |-> "setup", agent |-> "not_started", log |-> <<>>, sent |-> <<>>,
   posting |-> <<>>, exitCode |-> NoExitCode, stopped |-> ""]

\* grep -c of one kind of event in the log.
CountOf(log, kind) == Cardinality({k \in DOMAIN log : log[k] = kind})

\* extract_token_stats: the step_finish events counted, their tokens summed.
\* Without a step_finish event grep -c prints 0 and fails, "|| echo 0"
\* prints a second 0, and the object built from the two lines is not JSON.
extract_token_stats(log) ==
  LET n == CountOf(log, "step_finish")
  IN [valid |-> n > 0, messageCount |-> n, inputTokens |-> n, outputTokens |-> n]

\* send_webhook: the payload built for the type and signed with the script's
\* secret, posted once to the task's URL.
send_webhook(type, text, stats, progress) ==
  LET payload == [json |-> (stats = NoStats \/ stats.valid), type |-> type,
                  taskId |-> SCRIPT_TASK, text |-> text, stats |-> stats,
                  progress |-> progress]
  IN Request(SCRIPT_TASK, {generateSignature(payload, SCRIPT_SECRET)}, payload)

\* The script exits: by exit, or by errexit at the command that failed.
Exit(s, command) == [s EXCEPT !.pc = "exited", !.stopped = command]

ScriptStep(next) ==
  /\ script' = next
  /\ UNCHANGED <<tasks, sessions, comments, sprites, nextSprite, inbox, last,
                 exec, reaper, stream, monitor, activeWatchers, watchers>>

\* The setup script, under errexit.
ScriptSetup(ok) ==
  /\ script.pc = "setup"
  /\ ScriptStep(IF ok THEN [script EXCEPT !.pc = "clone"] ELSE Exit(script, "setup"))

\* A clone that fails under errexit, as any other command of the script.
ScriptCloneErrexit(ok) ==
  /\ script.pc = "clone"
  /\ ScriptStep(IF ok THEN [script EXCEPT !.pc = "branch"] ELSE Exit(script, "clone"))

\* git clone with errexit off: a failure is reported and the script exits.
ScriptClone(ok) ==
  /\ script.pc = "clone"
  /\ ScriptStep(IF ok THEN [script EXCEPT !.pc = "branch"]
                ELSE Exit([script EXCEPT !.sent =
                             Append(@, send_webhook("error", "Failed to clone repository",
                                                    NoStats, NoStats))],
                          "clone"))

\* cd and git config under errexit, then git checkout -b with errexit off.
ScriptBranch(outcome) ==
  /\ script.pc = "branch"
  /\ ScriptStep(
       CASE outcome = "ok" -> [script EXCEPT !.pc = "launch"]
         [] outcome = "config_failed" -> Exit(script, "config")
         [] outcome = "checkout_failed" ->
              Exit([script EXCEPT !.sent =
                      Append(@, send_webhook("error", "Failed to create branch",
                                             NoStats, NoStats))],
                   "checkout"))

\* opencode run and monitor_progress are started in the background.
ScriptLaunch ==
  /\ script.pc = "launch"
  /\ ScriptStep([script EXCEPT !.pc = "waiting", !.agent = "running"])

\* The agent writes an event to the log.
AgentWrites(kind) ==
  /\ script.agent = "running"
  /\ Len(script.log) < MaxLog
  /\ ScriptStep([script EXCEPT !.log = Append(@, kind)])

\* The curl that send_webhook started for a progress report makes its POST.
\* It is a child of the monitor's subshell: `kill "$MONITOR_PID"` ends the
\* subshell, and `wait` returns, while the curl goes on.
ProgressPosts ==
  /\ script.posting # <<>>
  /\ ScriptStep([script EXCEPT !.sent = @ \o script.posting, !.posting = <<>>])

\* monitor_progress: every ten seconds while the agent runs, send_webhook
\* with the counters of the log; the monitor waits for its curl.
MonitorProgress ==
  /\ script.agent = "running"
  /\ script.posting = <<>>
  /\ Len(script.sent) < MaxProgress
  /\ LET stats == extract_token_stats(script.log)
     IN ScriptStep([script EXCEPT !.posting =
          <<send_webhook("progress", "", NoStats, [stats EXCEPT !.valid = TRUE])>>])

\* The agent exits and wait returns its exit code.
AgentExits(code) ==
  /\ script.pc = "waiting"
  /\ script.agent = "running"
  /\ ScriptStep([script EXCEPT !.agent = "exited", !.exitCode = code,
                               !.pc = "summary"])

\* SUMMARY=$(grep '"type":"text"' ... | ...) under errexit and pipefail: the
\* assignment fails, and the script exits, when grep finds no text event.
ScriptSummary ==
  /\ script.pc = "summary"
  /\ ScriptStep(IF CountOf(script.log, "text") = 0 THEN Exit(script, "summary")
                ELSE [script EXCEPT !.pc = "final"])

\* The final webhook, with errexit off.
ScriptFinal ==
  /\ script.pc = "final"
  /\ LET stats == extract_token_stats(script.log)
         final == IF script.exitCode = 0
                  THEN send_webhook("completed", "txt", stats, NoStats)
                  ELSE send_webhook("error", "txt", NoStats, NoStats)
     IN ScriptStep([script EXCEPT !.sent = Append(@, final), !.pc = "done"])

\* ------------------------------------------------------- specification
Init ==
  /\ tasks = [t \in Tasks |-> [status |-> "abyss", executionState |-> "idle"]]
  /\ sessions = <<>>
  /\ comments = [t \in Tasks |-> <<>>]
  /\ sprites = {}
  /\ nextSprite = 0
  /\ inbox = NoRequest
  /\ last = NoResponse
  /\ exec = [p \in Procs |-> Idle]
  /\ reaper = Idle
  /\ stream = <<>>
  /\ monitor = MonitorStart
  /\ activeWatchers = {}
  /\ watchers = <<>>
  /\ script = ScriptStart

Next ==
  \/ \E t \in Tasks, o \in {"ok", "create_failed", "launch_failed"} :
       ExecuteSpritePOST(t, o)
  \/ \E t \in Tasks, o \in {"ok", "server_down", "execute_failed"} :
       ExecuteLocalPOST(t, o)
  \/ Webhook(Requests)
  \/ Respond
  \/ Cleanup
  \/ TimePasses

Spec == Init /\ [][Next]_vars

\* The same program with the execute routes and the cleanup job taken one
\* await at a time.
StepNext ==
  \/ \E p \in Procs, t \in Tasks, mode \in {"sprite", "local"} : ExecRead(p, t, mode)
  \/ \E p \in Procs : ExecMark(p)
  \/ \E p \in Procs, o \in {"ok", "create_failed", "launch_failed"} : ExecSpawn(p, o)
  \/ \E p \in Procs : ExecRecord(p)
  \/ \E p \in Procs : ExecPending(p)
  \/ \E p \in Procs, ok \in BOOLEAN : ExecRun(p, ok)
  \/ ReaperQuery
  \/ \E ok \in BOOLEAN : ReaperDestroy(ok)
  \/ ReaperFinalize
  \/ Webhook(PlainCallbacks)
  \/ Respond
  \/ TimePasses

StepSpec == Init /\ [][StepNext]_vars

\* The execute routes under every configuration, with the cleanup job to
\* end the executions they start.
ExecuteNext ==
  \/ \E t \in Tasks, o \in {"ok", "create_failed", "launch_failed"} \cup Misconfigured :
       ExecuteSpritePOST(t, o)
  \/ \E t \in Tasks, o \in {"ok", "server_down", "execute_failed"} :
       ExecuteLocalPOST(t, o)
  \/ Respond
  \/ Cleanup
  \/ TimePasses

ExecuteSpec == Init /\ [][ExecuteNext]_vars

\* monitorSession on its own: the events of the stream, its end and the timer.
MonitorNext ==
  \/ \E e \in Events : MonitorEvent(e)
  \/ \E error \in {"Event stream ended unexpectedly", "fetch failed"} :
       MonitorStreamEnds(error)
  \/ MonitorTimeout

MonitorSpec == Init /\ [][MonitorNext]_vars

\* The timer is a timer of the runtime: it fires.
MonitorLiveSpec == MonitorSpec /\ WF_vars(MonitorTimeout)

\* Local executions and the watchers of their sessions.
WatcherNext ==
  \/ \E t \in Tasks : ExecuteLocalPOST(t, "ok")
  \/ Respond
  \/ \E t \in Tasks, s \in 1..MaxSessions : startSessionWatcher(t, s)
  \/ \E s \in 1..MaxSessions : stopSessionWatcher(s)
  \/ \E w \in 1..MaxWatchers, e \in WatcherEvents :
       w \in DOMAIN watchers /\ WatcherEvent(w, e)
  \/ \E w \in 1..MaxWatchers : w \in DOMAIN watchers /\ WatcherTimeout(w)
  \/ \E w \in 1..MaxWatchers : w \in DOMAIN watchers /\ WatcherStreamEnds(w)
  \/ \E w \in 1..MaxWatchers : w \in DOMAIN watchers /\ WatcherCompletes(w)

WatcherSpec == Init /\ [][WatcherNext]_vars

\* One run of the generated script.
ScriptNext ==
  \/ \E ok \in BOOLEAN : ScriptSetup(ok)
  \/ \E ok \in BOOLEAN : ScriptClone(ok)
  \/ \E outcome \in {"ok", "config_failed", "checkout_failed"} : ScriptBranch(outcome)
  \/ ScriptLaunch
  \/ \E kind \in {"text", "step_finish"} : AgentWrites(kind)
  \/ MonitorProgress
  \/ ProgressPosts
  \/ \E code \in ExitCodes : AgentExits(code)
  \/ ScriptSummary
  \/ ScriptFinal

ScriptSpec == Init /\ [][ScriptNext]_vars

\* The webhook handler's dispatch: executions (a local one that fails leaves
\* an earlier session behind) and the signed callbacks of every type and
\* sessionId.
DispatchNext ==
  \/ \E t \in Tasks, o \in {"ok", "launch_failed"} : ExecuteSpritePOST(t, o)
  \/ \E t \in Tasks : ExecuteLocalPOST(t, "execute_failed")
  \/ Webhook(DispatchCallbacks)
  \/ Respond

DispatchSpec == Init /\ [][DispatchNext]_vars

\* The script of the first sprite has been started.
Launched ==
  \/ \E p \in Procs : exec[p].pc = "spawned" /\ exec[p].name = 1
  \/ \E i \in DOMAIN sessions : sessions[i].spriteName = 1

\* Sprite executions with spawnSpriteForTask taken call by call, and the run
\* of the script the first of them launches.
SpawnNext ==
  \/ \E p \in Procs, t \in Tasks : ExecRead(p, t, "sprite")
  \/ \E p \in Procs : ExecMark(p)
  \/ \E p \in Procs, ok \in BOOLEAN : SpawnCall(p, ok)
  \/ \E p \in Procs : SpawnFailed(p)
  \/ \E p \in Procs : ExecRecord(p)
  \/ Launched /\ ScriptNext

SpawnSpec == Init /\ [][SpawnNext]_vars

\* Callbacks handled concurrently, every call succeeding.
RaceNext ==
  \/ \E t \in Tasks : ExecuteSpritePOST(t, "ok")
  \/ Respond
  \/ \E p \in Procs, req \in UsageCallbacks : HookReceive(p, req)
  \/ \E p \in Procs : HookStep(p, TRUE)

RaceSpec == Init /\ [][RaceNext]_vars

\* One callback at a time, and the cleanup job beside it, with calls that
\* may fail.
FailNext ==
  \/ \E t \in Tasks : ExecuteSpritePOST(t, "ok")
  \/ \E req \in PlainCallbacks : HookReceive("p1", req)
  \/ \E ok \in BOOLEAN : HookStep("p1", ok)
  \/ TimePasses
  \/ SweepQuery
  \/ \E ok \in BOOLEAN : ReaperDestroy(ok)
  \/ \E ok \in BOOLEAN : SweepWrite(ok)
  \/ Respond

FailSpec == Init /\ [][FailNext]_vars

\* The cleanup job on its own, with writes that may fail, over the sessions
\* that execute requests racing each other leave running.
SweepNext ==
  \/ \E p \in Procs, t \in Tasks : ExecRead(p, t, "sprite")
  \/ \E p \in Procs : ExecMark(p)
  \/ \E p \in Procs : ExecSpawn(p, "ok")
  \/ \E p \in Procs : ExecRecord(p)
  \/ TimePasses
  \/ SweepQuery
  \/ \E ok \in BOOLEAN : ReaperDestroy(ok)
  \/ \E ok \in BOOLEAN : SweepWrite(ok)
  \/ Respond

SweepSpec == Init /\ [][SweepNext]_vars

\* A request that issues a destroy call the provider carries out.
DestroySucceeds ==
  /\ Next
  /\ inbox = NoRequest
  /\ last'.destroy # {}
  /\ last'.destroy \cap sprites' = {}

\* A callback of a script that reports its end arrives and is handled.
TerminalCallback ==
  Webhook({req \in Callbacks : req.body.type \in Terminal})

\* The program under fair scheduling: responses are sent, the cron job keeps
\* running, the scripts' final callbacks keep arriving while they can, and a
\* provider that is asked to destroy again and again eventually does.
LiveSpec ==
  /\ Spec
  /\ WF_vars(Respond)
  /\ SF_vars(Cleanup)
  /\ SF_vars(TerminalCallback)
  /\ SF_vars(DestroySucceeds)

\* ------------------------------------------------------------ properties
\* A step in which the webhook handler answers a request (Req' is the
\* request).
WebhookStep == inbox = NoRequest /\ inbox' # NoRequest /\ Req'.path \in Tasks

\* A webhook request has been answered (and the answer not yet sent).
Answered == inbox # NoRequest /\ Req.path \in Tasks

\* A step that is one run of the cleanup job.
CleanupStep == inbox = NoRequest /\ inbox' = {CronRequest}

\* A run of the cleanup job has ended (and the answer not yet sent).
Swept == inbox = {CronRequest}

\* The most recent session of the task a request addresses.
Latest(req) == getLatestSessionByTaskId(DB, req.path)

\* The header of the request is the signature of its body under the secret
\* of that session.
SignatureMatches(req) ==
  /\ Latest(req) # 0
  /\ req.signature = {generateSignature(req.body, sessions[Latest(req)].webhookSecret)}

\* The request lacks the header, or its body is not the one that was signed,
\* or it was signed with a secret other than that session's.
SignatureBad(req) ==
  \/ req.signature = {}
  \/ \E given \in req.signature :
       \/ given.msg # req.body
       \/ Latest(req) # 0 /\ given.key # sessions[Latest(req)].webhookSecret

NothingChanges == UNCHANGED <<sessions, tasks, comments, sprites>>

TerminalComments(t) ==
  {k \in DOMAIN comments[t] : comments[t][k].kind \in {"completed", "error", "timeout"}}

\* C1 (as stated): a webhook delivery never changes a status that is already
\* completed or error: the first terminal status a session received stays.
C1_FirstTerminalStatusStays ==
  [][WebhookStep =>
       \A i \in DOMAIN sessions :
         sessions[i].status \in Terminal => sessions'[i].status = sessions[i].status]_vars

\* C2 (as stated): no webhook delivery lowers messageCount, inputTokens or
\* outputTokens of any session.
C2_CountersNeverDecrease ==
  [][WebhookStep =>
       \A i \in DOMAIN sessions :
         /\ sessions'[i].messageCount >= sessions[i].messageCount
         /\ sessions'[i].inputTokens >= sessions[i].inputTokens
         /\ sessions'[i].outputTokens >= sessions[i].outputTokens]_vars

\* C3 (as stated): no step of the cleanup job changes the status of a session
\* that is already completed or error; a session a completed callback
\* finalized after the job's query keeps status completed.
C3_ReaperKeepsTerminalStatus ==
  [][reaper' # reaper =>
       \A i \in DOMAIN sessions :
         sessions[i].status \in Terminal => sessions'[i].status = sessions[i].status]_vars

\* C4 (as stated): in every state each task has at most one session that is
\* pending or in_progress and at most one live sprite. (Every sprite of the
\* model is spawned for a task of Tasks, and Tasks holds one task.)
C4_OneActiveSessionAndSprite ==
  \A t \in Tasks :
    /\ Cardinality({i \in DOMAIN sessions :
                      /\ sessions[i].taskId = t
                      /\ sessions[i].status \in {"pending", "in_progress"}}) <= 1
    /\ Cardinality(sprites) <= 1

\* C5 (as stated): a request is answered 200 only if its header is the
\* signature of its body under the latest session's secret, and a request
\* with a missing header, an altered body or another secret's signature is
\* answered 401 and changes nothing.
C5_BadSignatureAlways401 ==
  [][WebhookStep =>
       LET req == Req'
       IN /\ last'.status = 200 => SignatureMatches(req)
          /\ SignatureBad(req) => last'.status = 401 /\ NothingChanges]_vars

\* C5 (amended): a request is answered 200 only if its header is the
\* signature of its body under the latest session's secret; a request with a
\* missing header, an altered body or another secret's signature is rejected
\* and changes nothing, with 401 when the header is missing or when the body
\* is JSON and the latest session has a secret, 400 when the body is not JSON
\* or the latest session has no secret, 500 when the task has no session.
C5_BadSignatureRejected ==
  [][WebhookStep =>
       LET req == Req'
       IN /\ last'.status = 200 => SignatureMatches(req)
          /\ SignatureBad(req) =>
               /\ NothingChanges
               /\ last'.status =
                    IF req.signature = {} THEN 401
                    ELSE IF ~req.body.json THEN 400
                    ELSE IF Latest(req) = 0 THEN 500
                    ELSE IF sessions[Latest(req)].webhookSecret = NoSecret THEN 400
                    ELSE 401]_vars

\* C5 witness: a JSON body signed with a secret other than the one of the
\* task's latest session (which has one) has been answered 401.
C5_Witness ==
  /\ Answered
  /\ last.status = 401
  /\ Req.body.json
  /\ Latest(Req) # 0
  /\ sessions[Latest(Req)].webhookSecret # NoSecret
  /\ \E given \in Req.signature :
       given.msg = Req.body /\ given.key # sessions[Latest(Req)].webhookSecret

\* C6 (as stated): a callback for a task whose latest session has no webhook
\* secret is answered 400.
C6_NoSecretAlways400 ==
  [][WebhookStep =>
       LET req == Req'
       IN Latest(req) # 0 /\ sessions[Latest(req)].webhookSecret = NoSecret =>
            last'.status = 400]_vars

\* C6 (amended): the handler answers by the first check that fails in the
\* order: header missing (401), body not JSON (400), latest session without a
\* secret (400), signature mismatch (401), task id mismatch (400); so a
\* callback that carries a header and a JSON body for a task whose latest
\* session has no webhook secret is answered 400.
C6_CheckOrder ==
  [][WebhookStep =>
       LET req == Req'
           session == sessions[Latest(req)]
       IN /\ req.signature = {} => last'.status = 401
          /\ req.signature # {} /\ ~req.body.json => last'.status = 400
          /\ req.signature # {} /\ req.body.json /\ Latest(req) # 0 =>
               /\ session.webhookSecret = NoSecret => last'.status = 400
               /\ session.webhookSecret # NoSecret /\ ~SignatureMatches(req) =>
                    last'.status = 401
               /\ SignatureMatches(req) /\ req.body.taskId # session.taskId =>
                    last'.status = 400]_vars

\* C6 witness: a signed JSON callback for a task whose latest session has no
\* webhook secret has been answered 400.
C6_Witness ==
  /\ Answered
  /\ last.status = 400
  /\ Req.signature # {}
  /\ Req.body.json
  /\ Latest(Req) # 0
  /\ sessions[Latest(Req)].webhookSecret = NoSecret

\* C7: a correctly signed request whose payload names another task than the
\* resolved session's is answered 400 and changes no session, task, comment
\* or sprite.
C7_TaskIdMismatch400 ==
  [][WebhookStep =>
       LET req == Req'
       IN /\ SignatureMatches(req)
          /\ req.body.json
          /\ req.body.taskId # sessions[Latest(req)].taskId
          => last'.status = 400 /\ NothingChanges]_vars

\* C7 witness: such a request has been answered 400.
C7_Witness ==
  /\ Answered
  /\ last.status = 400
  /\ SignatureMatches(Req)
  /\ Req.body.taskId # sessions[Latest(Req)].taskId

\* C8: after an accepted completed callback with stats for a session that was
\* not terminal, the session is completed, its counters are the payload's,
\* the task is trial / awaiting_review and one comment, holding the summary,
\* has been appended.
C8_CompletedApplied ==
  [][WebhookStep =>
       LET req == Req'
           id == Latest(req)
           t == sessions[id].taskId
       IN /\ last'.status = 200
          /\ req.body.type = "completed"
          /\ req.body.stats # NoStats
          /\ sessions[id].status \notin Terminal
          => /\ sessions'[id].status = "completed"
             /\ sessions'[id].messageCount = req.body.stats.messageCount
             /\ sessions'[id].inputTokens = req.body.stats.inputTokens
             /\ sessions'[id].outputTokens = req.body.stats.outputTokens
             /\ tasks'[t] = [status |-> "trial", executionState |-> "awaiting_review"]
             /\ Len(comments'[t]) = Len(comments[t]) + 1
             /\ SubSeq(comments'[t], 1, Len(comments[t])) = comments[t]
             /\ comments'[t][Len(comments'[t])].kind = "completed"
             /\ req.body.text # "" =>
                  comments'[t][Len(comments'[t])].text = req.body.text]_vars

\* C8 witness: a completed callback with a summary and non-zero stats has been
\* accepted for the only session, and it is the first to finalize it.
C8_Witness ==
  /\ Answered
  /\ last.status = 200
  /\ Req.body.type = "completed"
  /\ Req.body.stats # NoStats
  /\ Req.body.stats.inputTokens > 0
  /\ Req.body.text # ""
  /\ Len(sessions) = 1
  /\ sessions[1].status = "completed"
  /\ sessions[1].inputTokens = Req.body.stats.inputTokens
  /\ Cardinality(TerminalComments(sessions[1].taskId)) = 1

\* C9: after an accepted error callback for a session that was not terminal,
\* the session is error with the payload's error text as errorMessage, the
\* task is cursed / error and a comment with the error has been appended.
C9_ErrorApplied ==
  [][WebhookStep =>
       LET req == Req'
           id == Latest(req)
           t == sessions[id].taskId
           message == IF req.body.text # "" THEN req.body.text ELSE "Unknown error"
       IN /\ last'.status = 200
          /\ req.body.type = "error"
          /\ sessions[id].status \notin Terminal
          => /\ sessions'[id].status = "error"
             /\ sessions'[id].errorMessage = message
             /\ tasks'[t] = [status |-> "cursed", executionState |-> "error"]
             /\ comments'[t] = Append(comments[t], Comment("error", message))]_vars

\* C9 witness: an error callback with an error text has been accepted for the
\* only session, and it is the first to finalize it.
C9_Witness ==
  /\ Answered
  /\ last.status = 200
  /\ Req.body.type = "error"
  /\ Req.body.text # ""
  /\ Len(sessions) = 1
  /\ sessions[1].status = "error"
  /\ sessions[1].errorMessage = Req.body.text
  /\ Cardinality(TerminalComments(sessions[1].taskId)) = 1

\* C10: an accepted started or question callback appends one comment and
\* changes no session row and no task row, issues no destroy call and leaves
\* the sprites as they are.
C10_StartedQuestionOnlyComment ==
  [][WebhookStep =>
       LET req == Req'
           t == sessions[Latest(req)].taskId
       IN last'.status = 200 /\ req.body.type \in {"started", "question"} =>
            /\ sessions' = sessions
            /\ tasks' = tasks
            /\ Len(comments'[t]) = Len(comments[t]) + 1
            /\ SubSeq(comments'[t], 1, Len(comments[t])) = comments[t]
            /\ last'.destroy = {}
            /\ sprites' = sprites]_vars

\* C10 witness: a question has been accepted for a running session whose
\* sprite is alive.
C10_Witness ==
  /\ Answered
  /\ last.status = 200
  /\ Req.body.type = "question"
  /\ sessions[Latest(Req)].status = "in_progress"
  /\ sessions[Latest(Req)].spriteName \in sprites
  /\ last.destroy = {}

\* C11: an accepted progress callback for a session that is completed or
\* error changes no session row and no task row; for a session that is not,
\* it leaves the status in_progress and, when it carries counters, the
\* session's counters are the payload's afterwards.
C11_ProgressFrame ==
  [][WebhookStep =>
       LET req == Req'
           id == Latest(req)
       IN last'.status = 200 /\ req.body.type = "progress" =>
            IF sessions[id].status \in Terminal
            THEN sessions' = sessions /\ tasks' = tasks
            ELSE /\ sessions'[id].status = "in_progress"
                 /\ req.body.progress # NoStats =>
                      /\ sessions'[id].messageCount = req.body.progress.messageCount
                      /\ sessions'[id].inputTokens = req.body.progress.inputTokens
                      /\ sessions'[id].outputTokens = req.body.progress.outputTokens]_vars

\* C11 witness: a progress callback whose counters differ from the stored
\* ones has been accepted for a session that is completed or error.
C11_Witness ==
  /\ Answered
  /\ last.status = 200
  /\ Req.body.type = "progress"
  /\ Req.body.progress # NoStats
  /\ sessions[Latest(Req)].status \in Terminal
  /\ sessions[Latest(Req)].messageCount # Req.body.progress.messageCount

\* C12: the handler issues a destroy call only in a request it answers 200,
\* of type completed or error, whose session and task updates are in the
\* tables; it issues one, for the session's sprite, in every such request and
\* none for question, progress or started; and whether or not the destroy
\* call succeeds the answer is 200 and the updates are kept.
C12_DestroyAfterTerminalCallback ==
  [][WebhookStep =>
       LET req == Req'
           id == Latest(req)
           t == sessions[id].taskId
       IN /\ last'.destroy # {} =>
               /\ last'.status = 200
               /\ req.body.type \in Terminal
               /\ sessions'[id].status = req.body.type
               /\ tasks'[t].executionState =
                    IF req.body.type = "completed" THEN "awaiting_review" ELSE "error"
          /\ last'.status = 200 /\ req.body.type \in Terminal =>
               last'.destroy = {sessions[id].spriteName}
          /\ last'.status = 200 /\ req.body.type \notin Terminal =>
               last'.destroy = {} /\ sprites' = sprites]_vars

\* C12 witness: a completed callback has been answered 200 and its updates
\* are in the tables although the destroy call failed (the sprite is alive).
C12_Witness ==
  /\ Answered
  /\ last.status = 200
  /\ Req.body.type = "completed"
  /\ last.destroy = {sessions[Latest(Req)].spriteName}
  /\ last.destroy \subseteq sprites
  /\ sessions[Latest(Req)].status = "completed"
  /\ tasks[sessions[Latest(Req)].taskId].executionState = "awaiting_review"

\* The handler's destroy call for sprite n has just failed.
FailedTeardown(n) == Answered /\ last.status = 200 /\ last.destroy = {n} /\ n \in sprites

\* A run of the cleanup job has issued a destroy call for sprite n.
ReaperAttempts(n) == Swept /\ n \in last.destroy

\* C13 (as stated): when the handler's destroy call after a completed or
\* error callback has failed, a later run of the cleanup job issues a destroy
\* call for that sprite (unless the sprite is gone by then).
C13_ReaperBackstop ==
  \A n \in Keys : FailedTeardown(n) ~> (ReaperAttempts(n) \/ n \notin sprites)

\* C14 (as stated): handling an accepted callback a second time right after
\* the first leaves the sessions, the tasks and the comments as the first
\* handling left them.
C14_SecondDeliveryChangesNothing ==
  Answered /\ last.status = 200 =>
    LET again == WebhookResult(DB, Req)
    IN again.status = 200 => again.db = DB

\* A step in which one of the execute routes answers a request.
ExecuteStep == inbox = NoRequest /\ inbox' # NoRequest /\ Req'.path = "execute"

\* C15 (as stated): an execute request that ends in an error leaves no sprite
\* behind that it created.
C15_FailedSpawnLeavesNoSprite ==
  [][ExecuteStep /\ last'.status = 500 => sprites' \subseteq sprites]_vars

\* C16 (as stated): under fair scheduling every sprite that exists is
\* eventually destroyed.
C16_EverySpriteEventuallyDestroyed ==
  \A n \in Keys : (n \in sprites) ~> (n \notin sprites)

\* C17 (as stated): once a callback's destroy call has removed the sprite,
\* calling destroy for the same name again (the provider is up and answers
\* not-found) returns success.
C17_DestroyOfMissingSpriteSucceeds ==
  Answered /\ last.destroy # {} /\ last.destroy \cap sprites = {} =>
    \A n \in last.destroy : destroySpriteForTask(n, TRUE) = "success"

\* C18 (as stated): a sprite is created only while the task has a session in
\* status pending: the session record precedes the remote call.
C18_PendingBeforeRemoteCall ==
  [][nextSprite' # nextSprite =>
       \E p \in Procs :
         /\ exec'[p] # exec[p]
         /\ \E i \in DOMAIN sessions :
              /\ sessions[i].taskId = exec[p].taskId
              /\ sessions[i].status = "pending"]_vars

\* C19 (as stated): an execute request that ends in an error because the
\* launch failed leaves every session it created in status error, leaves no
\* session pending and leaves no sprite behind.
C19_FailedLaunchMarksError ==
  [][ExecuteStep /\ last'.status = 500 =>
       /\ \A i \in DOMAIN sessions' :
            /\ sessions'[i].status # "pending"
            /\ i \notin DOMAIN sessions => sessions'[i].status = "error"
       /\ sprites' \subseteq sprites]_vars

C21_FailedSpawnLeavesNotice ==
  [][ExecuteStep /\ Req'.mode = "sprite" /\ last'.status = 500 =>
       LET t == Req'.taskId
       IN /\ Len(comments'[t]) > Len(comments[t])
          /\ tasks'[t].executionState # "in_progress"]_vars

IsOwn(e) == e.sessionID = OwnSession
SeenUpdates ==
  {k \in DOMAIN stream : stream[k].type = "message.updated" /\ IsOwn(stream[k])}
SeenIds == {stream[k].id : k \in SeenUpdates}
LastUpdate(id) ==
  stream[CHOOSE k \in SeenUpdates :
           /\ stream[k].id = id
           /\ \A j \in SeenUpdates : stream[j].id = id => j <= k]
LastTokens(field) ==
  Sum([id \in SeenIds |-> IF LastUpdate(id).tokens = NoTokens THEN 0
                          ELSE LastUpdate(id).tokens[field]], SeenIds)
LastRole ==
  IF SeenUpdates = {} THEN NoRole
  ELSE RoleOf(stream[CHOOSE k \in SeenUpdates : \A j \in SeenUpdates : j <= k].id)
IdleEvent(e) ==
  e.type = "session.idle" \/ (e.type = "session.status" /\ e.status = "idle")

\* A step of the loop, and the event it handles.
MonitorStep == stream' # stream
Handled == stream'[Len(stream')]

\* The locals the loop tracks, without the progress events of the last
\* iteration and the outcome of the race.
Tracked(m) == [m EXCEPT !.progress = <<>>, !.result = NoResult]

\* The loop run from the start over a sequence of events.
RECURSIVE RunMonitor(_, _)
RunMonitor(m, events) ==
  IF events = <<>> \/ m.loop # "running" THEN m
  ELSE RunMonitor(monitorEvent(m, Head(events)), Tail(events))

Counts(r) ==
  /\ r.messageCount = Cardinality(SeenIds)
  /\ r.inputTokens = LastTokens("input")
  /\ r.outputTokens = LastTokens("output")

\* C23: every stats event the monitor emits, and the result it returns on
\* success, reports as messageCount the number of distinct message ids seen
\* for its session and as input / output tokens the sum, over those ids, of
\* the tokens of the last update seen for the id.
C23_TokensOfLastUpdatePerMessage ==
  /\ \A k \in DOMAIN monitor.progress :
       monitor.progress[k].type = "stats" => Counts(monitor.progress[k])
  /\ monitor.returned.success => Counts(monitor.returned)

\* C23 witness: a message reported its tokens twice, the second time more,
\* and the stats event of the second update reports the second value alone.
C23_Witness ==
  \E j, k \in SeenUpdates :
    /\ j < k
    /\ k = Len(stream)
    /\ stream[j].id = stream[k].id
    /\ stream[j].tokens.input > 0
    /\ stream[k].tokens.input > stream[j].tokens.input
    /\ \E n \in DOMAIN monitor.progress :
         /\ monitor.progress[n].type = "stats"
         /\ monitor.progress[n].inputTokens = stream[k].tokens.input
         /\ monitor.progress[n].messageCount = 1

\* C24: an iteration on an event whose session id is absent or not the
\* monitored one changes none of the tracked locals, emits no progress
\* event and does not return; and after every iteration the tracked locals
\* are those of a run over the monitored session's events alone.
C24_OtherSessionsDiscarded ==
  [][MonitorStep =>
       /\ ~IsOwn(Handled) =>
            /\ Tracked(monitor') = Tracked(monitor)
            /\ monitor'.progress = <<>>
            /\ monitor'.result = monitor.result
            /\ monitor'.loop = "running"
       /\ Tracked(monitor') =
            Tracked(RunMonitor(MonitorStart, SelectSeq(stream', IsOwn)))]_vars

\* C24 witness: the monitor has returned success on the idle status of its
\* session although an event of another session came in between.
C24_Witness ==
  /\ monitor.returned.success
  /\ \E k \in DOMAIN stream : ~IsOwn(stream[k]) /\ k > 1

\* C25: the monitor returns success only in an iteration on an idle event of
\* its session when the last message seen before was an assistant message;
\* an idle event of its session seen with no message yet, or after a user
\* message, leaves the loop running and the result open.
C25_SuccessOnlyWhenIdleAfterAssistant ==
  [][/\ (monitor'.result.success /\ ~monitor.result.success) =>
          /\ MonitorStep
          /\ IsOwn(Handled)
          /\ IdleEvent(Handled)
          /\ LastRole = "assistant"
     /\ (MonitorStep /\ IsOwn(Handled) /\ IdleEvent(Handled)
           /\ LastRole # "assistant") =>
          /\ monitor'.loop = "running"
          /\ monitor'.result = monitor.result]_vars

\* C25 witness: an idle event seen before any message did not end the
\* monitoring; the idle status after the assistant's message did.
C25_Witness ==
  /\ Len(stream) = 3
  /\ IsOwn(stream[1]) /\ IdleEvent(stream[1])
  /\ IsOwn(stream[3]) /\ IdleEvent(stream[3])
  /\ monitor.result.success

\* C26: every call of monitorSession resolves: the result of the race is
\* eventually there, and when the timer settles it, which it does while the
\* loop is still running, the result is a failure with the timeout error.
C26_MonitorAlwaysResolves ==
  /\ <>(monitor.result # NoResult)
  /\ [][(monitor.result = NoResult /\ monitor'.result # NoResult
           /\ monitor'.loop = "running") =>
          /\ ~monitor'.result.success
          /\ monitor'.result.error = "Session monitoring timeout (30 minutes)"]_vars

\* C26 witness: the stream delivered events without a terminal condition
\* and the timer has settled the race.
C26_Witness ==
  /\ Len(stream) = MaxEvents
  /\ monitor.loop = "running"
  /\ monitor.result = Failure("Session monitoring timeout (30 minutes)")

\* ------------------------------------------------ the watchers' history
\* The watchers whose monitor loop is running for a session.
Monitoring(sessionId) ==
  {w \in DOMAIN watchers : /\ watchers[w].sessionId = sessionId
                           /\ watchers[w].mon.loop = "running"}

\* C27 (as stated): at most one monitor is running for any session.
C27_OneMonitorPerSession ==
  \A s \in 1..MaxSessions : Cardinality(Monitoring(s)) <= 1

\* C28 (as stated): the monitor of a watcher that was stopped returns in the
\* next iteration of its loop, whatever the event.
C28_StoppedMonitorReturnsAtNextEvent ==
  [][\A w \in DOMAIN watchers :
       (/\ watchers[w].aborted
        /\ watchers[w].mon.loop = "running"
        /\ watchers'[w].eventCount # watchers[w].eventCount)
       => watchers'[w].mon.loop = "returned"]_vars

\* ------------------------------------------------ the script's callbacks
\* The terminal callbacks a run has sent.
TerminalSent ==
  {k \in DOMAIN script.sent : script.sent[k].body.type \in Terminal}

\* C29 (as stated): a run that started the agent and has ended has sent
\* exactly one terminal callback, completed for exit code 0 and error
\* otherwise.
C29_OneTerminalCallbackPerRun ==
  (script.pc \in {"done", "exited"} /\ script.agent # "not_started") =>
    /\ Cardinality(TerminalSent) = 1
    /\ \A k \in TerminalSent :
         script.sent[k].body.type =
           IF script.exitCode = 0 THEN "completed" ELSE "error"

\* C30: a run that stopped at the clone or at the branch checkout has sent
\* exactly one callback, an error callback signed with the script's secret,
\* has not started the agent and takes no further step.
C30_CloneOrBranchFailureSendsOneError ==
  /\ script.stopped \in {"clone", "checkout"} =>
       /\ script.pc = "exited"
       /\ script.agent = "not_started"
       /\ Len(script.sent) = 1
       /\ script.sent[1].body.type = "error"
       /\ script.sent[1].path = SCRIPT_TASK
       /\ verifySignature(script.sent[1].body, script.sent[1].signature, SCRIPT_SECRET)
  /\ script.stopped \in {"clone", "checkout"} => ~ENABLED ScriptNext

\* C30 witness: the clone succeeded and git checkout -b failed.
C30_Witness ==
  /\ script.stopped = "checkout"
  /\ Len(script.sent) = 1

\* ------------------------------------------------ the webhook's dispatch
\* C31: a correctly signed callback about its task whose type the switch has
\* no case for is answered 400; no session, task or comment changes and no
\* destroy call is issued.
C31_UnknownTypeRejected ==
  [][(/\ WebhookStep
      /\ WebhookChecks(DB, Req') = 0
      /\ Req'.body.type \notin Types)
     => /\ last'.status = 400
        /\ last'.destroy = {}
        /\ UNCHANGED <<tasks, sessions, comments, sprites>>]_vars

\* A signed callback of an unknown type was answered while its session was
\* running and its sprite existed.
C31_Witness ==
  /\ Answered
  /\ Req.path \in Tasks
  /\ Req.body.type \in UnknownTypes
  /\ last.status = 400
  /\ \E i \in DOMAIN sessions :
       /\ i = getLatestSessionByTaskId(DB, Req.path)
       /\ verifySignature(Req.body, Req.signature, sessions[i].webhookSecret)
       /\ sessions[i].status = "in_progress"
       /\ sessions[i].spriteName \in sprites

\* The same request with another sessionId field, signed again.
WithSessionId(req, s) ==
  LET p == [req.body EXCEPT !.sessionId = s]
  IN Request(req.path,
             {generateSignature(p, given.key) : given \in req.signature}, p)

\* C32: an accepted callback reads and changes only the most recent session
\* of the task of its path, and the callback with any other sessionId field
\* would have made the same change.
C32_SessionIdFieldIgnored ==
  [][(WebhookStep /\ last'.status = 200)
     => /\ \A i \in DOMAIN sessions :
             sessions'[i] # sessions[i] => i = getLatestSessionByTaskId(DB, Req'.path)
        /\ \A s \in SessionIdFields :
             /\ WebhookResult(DB, WithSessionId(Req', s)).status = 200
             /\ WebhookResult(DB, WithSessionId(Req', s)).db = DB'
             /\ WebhookResult(DB, WithSessionId(Req', s)).destroy
                  = WebhookResult(DB, Req').destroy]_vars

\* A terminal callback that names the task's earlier session was accepted
\* and changed the later one.
C32_Witness ==
  /\ Answered
  /\ Req.path \in Tasks
  /\ last.status = 200
  /\ Req.body.type \in Terminal
  /\ Len(sessions) = 2
  /\ Req.body.sessionId = 1
  /\ sessions[1].taskId = Req.path /\ sessions[2].taskId = Req.path
  /\ sessions[1].status = "pending"
  /\ sessions[2].status = Req.body.type

\* ------------------------------------------------ the spawn's remote calls
\* The script of the first sprite has run to its end.
ScriptEnded == script.pc \in {"done", "exited"}

\* C33: the calls a spawn has made are a beginning of create, upload, chmod,
\* launch; none follows a failed one; and the spawn returns the sprite's name,
\* secret and branch exactly when the launch call has succeeded, at which
\* point the script it started has not begun its run.
C33_SpawnCallsInOrder ==
  /\ [](\A p \in Procs :
         LET calls == CallsOf(p)
         IN /\ Len(calls) <= 4
            /\ \A k \in DOMAIN calls :
                 /\ calls[k].call = <<"createSprite", "write", "chmod", "launch">>[k]
                 /\ k < Len(calls) => calls[k].ok
            /\ exec[p].pc = "spawned" <=>
                 (Len(calls) = 4 /\ \A k \in DOMAIN calls : calls[k].ok)
            /\ exec[p].pc = "spawned" => exec[p].name \in sprites)
  /\ [][\A p \in Procs :
         (exec[p].pc # "spawned" /\ exec'[p].pc = "spawned" /\ exec'[p].name = 1)
         => script' = ScriptStart /\ ~ScriptEnded']_vars

\* A spawn failed at its chmod call after two calls that succeeded, while
\* another one has returned and its script is still running.
C33_Witness ==
  \E p, q \in Procs :
    /\ exec[p].pc = "failed"
    /\ Len(CallsOf(p)) = 3
    /\ exec[q].pc = "spawned"
    /\ exec[q].name = 1
    /\ script.agent # "not_started"

\* ------------------------------------------------ failed executions
\* C34 (as stated): an execute request that ends in an error leaves the
\* task's executionState as it found it.
C34_FailedExecuteKeepsExecutionState ==
  [][(ExecuteStep /\ last'.status = 500)
     => tasks'[Req'.taskId].executionState = tasks[Req'.taskId].executionState]_vars

\* ------------------------------------------------ the script's last word
\* C40 (as stated): no progress callback follows the terminal callback of a
\* run.
C40_NoProgressAfterTerminal ==
  \A k, j \in DOMAIN script.sent :
    (script.sent[k].body.type \in Terminal /\ k < j)
      => script.sent[j].body.type # "progress"

\* ------------------------------------------------ the watchers' registry
\* C37 (as stated): the registry's entry of a session goes only when the
\* watcher it names is stopped or ends: as long as that watcher is neither,
\* isSessionWatched stays true of the session.
C37_EntryKeptWhileItsWatcherRuns ==
  [][\A s \in 1..MaxSessions :
       LET w == activeWatchersGet(s)
       IN (/\ w # NoWatcher
           /\ watchers'[w].pc = "monitoring"
           /\ ~watchers'[w].aborted)
          => isSessionWatched(s)']_vars

\* C38 (as stated): when the monitor of a watcher that was stopped has
\* resolved and the watcher ends, no session, task or comment changes.
C38_StoppedWatcherWritesNothing ==
  [][\A w \in DOMAIN watchers :
       (/\ watchers[w].aborted
        /\ watchers[w].pc = "monitoring"
        /\ watchers'[w].pc = "stopped")
       => UNCHANGED <<tasks, sessions, comments>>]_vars

\* ------------------------------------------------ session and task together
\* No request is being handled and no cleanup run is under way.
Quiescent ==
  /\ \A p \in Procs : ~Busy(p)
  /\ reaper.pc = "idle"

\* The most recent session of a task is completed or in error while the
\* task's executionState is in_progress.
EndedButInProgress ==
  \E t \in Tasks :
    LET sid == getLatestSessionByTaskId(DB, t)
    IN /\ sid # 0
       /\ sessions[sid].status \in Terminal
       /\ tasks[t].executionState = "in_progress"

\* The counters a session holds.
CountersOf(session) ==
  [messageCount |-> session.messageCount, inputTokens |-> session.inputTokens,
   outputTokens |-> session.outputTokens]

\* C35 (as stated): once the callbacks handled concurrently have all been
\* answered, no ended session has its task in_progress, and a completed
\* session holds the final counters of its completed callback.
C35_ProgressNeverOvertakesCompletion ==
  (\A p \in Procs : ~Busy(p)) =>
    /\ ~EndedButInProgress
    /\ \A i \in DOMAIN sessions :
         sessions[i].status = "completed" => CountersOf(sessions[i]) = FinalStats

\* C36 (as stated): whenever no callback and no cleanup run is being
\* handled, the most recent session of a task is not ended with the task
\* in_progress.
C36_EndedSessionTaskNotInProgress ==
  Quiescent => ~EndedButInProgress

\* The sessions a cleanup run found that are finalized: session in error
\* with the timeout message, task cursed, comment posted.
Finalized(found) ==
  {i \in found :
     /\ sessions[i].status = "error"
     /\ sessions[i].errorMessage = "Execution timed out after 1 hour"
     /\ tasks[sessions[i].taskId].status = "cursed"
     /\ \E k \in DOMAIN comments[sessions[i].taskId] :
          comments[sessions[i].taskId][k].kind = "timeout"}

\* C39 (as stated): a cleanup run ends only at the last stale session it
\* had found, and the count it returns is the number of sessions it
\* finalized.
C39_SweepGoesOnAndCounts ==
  /\ [][(reaper.pc # "idle" /\ reaper'.pc = "idle")
         => reaper.staleSessions = {ReaperAt}]_vars
  /\ []((Swept /\ "cleaned" \in DOMAIN last)
          => last.cleaned = Cardinality(Finalized(last.found)))

====
